---- MODULE Spec2Model ----
(***************************************************************************)
(* Request-time rendering pipeline of the vanilla shop: server router,    *)
(* product store (reducer + observer), data prefetch, render(url) with    *)
(* the process-wide ssrContext slot, and the client start-up/services.    *)
(*                                                                         *)
(* JavaScript strings that travel through URLs are modelled as sequences   *)
(* of symbols (a symbol is "/", ":", "?", "&", "=" or a word atom such as  *)
(* "product" or "p1"), so that splitting, regular-expression matching and  *)
(* substitution are computed and not assumed.                              *)
(***************************************************************************)
EXTENDS Integers, Sequences, FiniteSets, TLC

VARIABLES
    routes,       \* ServerRouter.#routes of the router under test (insertion ordered)
    regLog,       \* the addRoute calls made on the router under test, in call order
    lastUrl,      \* the latest ServerRouter.match call: its argument, how it was built, and the registrations before it
    matchResult,  \* result of the latest ServerRouter.match call
    stores,       \* heap of store instances; stores[SingletonId] is productStore
    subs,         \* per store: the observer's Set of callbacks, in insertion order
    notified,     \* callbacks invoked by the latest dispatch, in call order
    lastAction,   \* the latest two dispatched actions with the state before each
    nextRef,      \* allocator of object identities for snapshots
    ssrStore,     \* ssrContext.store
    req,          \* the render(url) calls: position, locals and settled result
    client,       \* the browser: productStore, router.query and the service calls in flight
    prefetched,   \* a prefetchData call on its own: catalog, arguments and result
    composed,     \* an injectSSRResult call on its own: template, render result and output
    ssg,          \* a run of static-site-generate.js: page list, position, files written
    http,         \* the Express handler serving one request: position, locals and responses sent
    queried,      \* a mockGetProducts call on its own: catalog, options and result
    view,         \* withLifecycle in the browser: current page, HomePage's lifecycle record, router.query
    dev,          \* the development server: the handler's shared template and render, and the requests in flight
    feed,          \* the product list in the browser: router.query, the list state of productStore and the product loads in flight
    nav,          \* page lifecycles in the browser: the page displayed, withLifecycle's current page and lifecycle records
    related          \* related products of one product: the list of the SSR prefetch and the list the client loads

vars == <<routes, regLog, lastUrl, matchResult, stores, subs, notified, lastAction,
          nextRef, ssrStore, req, client, prefetched, composed, ssg, http, queried, view, dev, feed, nav, related>>

-----------------------------------------------------------------------------
(* Bounds *)

MaxReq == 2          \* concurrent render(url) calls
MaxRoutes == 2       \* addRoute calls on the router under test
MaxDispatch == 2     \* state-changing dispatches on the store under test
MaxSubs == 2         \* callbacks subscribed to the store under test
MaxCalls == 3        \* service calls made in the browser after main()

-----------------------------------------------------------------------------
(* JavaScript values *)

Null == "null"                  \* null in a string-typed position
NullObj == [isNull |-> TRUE]    \* null in an object-typed position
EmptyObj == [k \in {} |-> Null] \* the object literal {}

Range(s) == {s[i] : i \in DOMAIN s}

\* {...a, ...b}
Spread(a, b) == [k \in DOMAIN a \cup DOMAIN b |-> IF k \in DOMAIN b THEN b[k] ELSE a[k]]

RECURSIVE SelectSeqBy(_, _)
\* Array.prototype.filter with the predicate given as the set of kept elements
SelectSeqBy(s, keep) ==
    IF s = <<>> THEN <<>>
    ELSE IF Head(s) \in keep THEN <<Head(s)>> \o SelectSeqBy(Tail(s), keep)
         ELSE SelectSeqBy(Tail(s), keep)

-----------------------------------------------------------------------------
(* ServerRouter: src/packages/vanilla/src/router/serverRouter.js *)

\* \w of the regular expression /:\w+/g, on symbols
IsWord(c) == c \notin {"/", ":", "?", "&", "="}

RECURSIVE WordEnd(_, _)
\* index of the last symbol of the maximal run of word symbols starting at i
WordEnd(path, i) ==
    IF i < Len(path) /\ IsWord(path[i + 1]) THEN WordEnd(path, i + 1) ELSE i

Lit(c) == [t |-> "lit", c |-> c]
Cap == [t |-> "cap", c |-> "[^/]+"]

RECURSIVE CompileFrom(_, _)
\* path.replace(/:\w+/g, ...).replace(/\//g, "\\/"): every ":name" becomes
\* the capture group ([^/]+) and its name is pushed on paramNames; every
\* other symbol stays a literal (an escaped slash is a literal slash)
CompileFrom(path, i) ==
    IF i > Len(path) THEN [regex |-> <<>>, paramNames |-> <<>>]
    ELSE IF path[i] = ":" /\ i < Len(path) /\ IsWord(path[i + 1])
         THEN LET j == WordEnd(path, i + 1)
                  rest == CompileFrom(path, j + 1)
              IN [regex |-> <<Cap>> \o rest.regex,
                  paramNames |-> <<SubSeq(path, i + 1, j)>> \o rest.paramNames]
         ELSE LET rest == CompileFrom(path, i + 1)
              IN [regex |-> <<Lit(path[i])>> \o rest.regex,
                  paramNames |-> rest.paramNames]

\* baseUrl.replace(/\/$/, "")
StripTrailingSlash(baseUrl) ==
    IF baseUrl # <<>> /\ baseUrl[Len(baseUrl)] = "/"
    THEN SubSeq(baseUrl, 1, Len(baseUrl) - 1) ELSE baseUrl

RECURSIVE LitSeq(_)
LitSeq(s) == IF s = <<>> THEN <<>> ELSE <<Lit(Head(s))>> \o LitSeq(Tail(s))

\* the route record addRoute stores: new RegExp(`^${baseUrl}${regexPath}$`)
CompileRoute(baseUrl, path, handler) ==
    LET c == CompileFrom(path, 1)
    IN [path |-> path,
        regex |-> LitSeq(StripTrailingSlash(baseUrl)) \o c.regex,
        paramNames |-> c.paramNames,
        handler |-> handler]

RECURSIVE IndexOfPath(_, _, _)
IndexOfPath(rs, path, i) ==
    IF i > Len(rs) THEN 0
    ELSE IF rs[i].path = path THEN i ELSE IndexOfPath(rs, path, i + 1)

\* Map.prototype.set: a new key is appended, an existing key keeps its
\* position and gets the new value
addRoute(rs, baseUrl, path, handler) ==
    LET k == IndexOfPath(rs, path, 1)
        r == CompileRoute(baseUrl, path, handler)
    IN IF k = 0 THEN Append(rs, r) ELSE [rs EXCEPT ![k] = r]

RECURSIVE NonSlashRun(_, _)
\* number of consecutive symbols other than "/" from position j on
NonSlashRun(s, j) ==
    IF j > Len(s) \/ s[j] = "/" THEN 0 ELSE 1 + NonSlashRun(s, j + 1)

NoMatch == [ok |-> FALSE, caps |-> <<>>]

RECURSIVE MatchFrom(_, _, _, _)
RECURSIVE TryCap(_, _, _, _, _)
\* backtracking match of regex[i..] against s[j..], anchored at the end ($)
MatchFrom(regex, i, s, j) ==
    IF i > Len(regex) THEN [ok |-> j = Len(s) + 1, caps |-> <<>>]
    ELSE IF regex[i].t = "lit"
         THEN IF j <= Len(s) /\ s[j] = regex[i].c
              THEN MatchFrom(regex, i + 1, s, j + 1) ELSE NoMatch
         ELSE TryCap(regex, i, s, j, NonSlashRun(s, j))

\* the greedy quantifier of ([^/]+): longest extent first, at least one symbol
TryCap(regex, i, s, j, n) ==
    IF n = 0 THEN NoMatch
    ELSE LET r == MatchFrom(regex, i + 1, s, j + n)
         IN IF r.ok THEN [ok |-> TRUE, caps |-> <<SubSeq(s, j, j + n - 1)>> \o r.caps]
            ELSE TryCap(regex, i, s, j, n - 1)

\* pathname.match(route.regex), anchored at the start (^)
RegexMatch(s, regex) == MatchFrom(regex, 1, s, 1)

RECURSIVE IndexOfSym(_, _, _)
\* String.prototype.indexOf on symbols, 0 when absent
IndexOfSym(s, c, i) ==
    IF i > Len(s) THEN 0 ELSE IF s[i] = c THEN i ELSE IndexOfSym(s, c, i + 1)

\* a match that tests the whole URL, query string included
PathnameWithQuery(url) == url

\* url.split("?")[0]
Pathname(url) ==
    LET q == IndexOfSym(url, "?", 1)
    IN IF q = 0 THEN url ELSE SubSeq(url, 1, q - 1)

\* a binding that pairs the names with the captures in reverse
BindParamsReversed(paramNames, caps) ==
    [n \in Range(paramNames) |->
        LET last == CHOOSE i \in DOMAIN paramNames :
                        /\ paramNames[i] = n
                        /\ \A k \in DOMAIN paramNames : paramNames[k] = n => k <= i
        IN caps[Len(caps) + 1 - last]]

\* route.paramNames.forEach((name, index) => params[name] = match[index + 1])
BindParams(paramNames, caps) ==
    [n \in Range(paramNames) |->
        LET last == CHOOSE i \in DOMAIN paramNames :
                        /\ paramNames[i] = n
                        /\ \A k \in DOMAIN paramNames : paramNames[k] = n => k <= i
        IN caps[last]]

RECURSIVE MatchLoop(_, _, _)
\* for (const [routePath, route] of this.#routes) ... return null
MatchLoop(rs, pathname, i) ==
    IF i > Len(rs) THEN NullObj
    ELSE LET m == RegexMatch(pathname, rs[i].regex)
         IN IF m.ok
            THEN [path |-> rs[i].path,
                  regex |-> rs[i].regex,
                  paramNames |-> rs[i].paramNames,
                  handler |-> rs[i].handler,
                  params |-> BindParams(rs[i].paramNames, m.caps)]
            ELSE MatchLoop(rs, pathname, i + 1)

match(rs, url) == MatchLoop(rs, Pathname(url), 1)

-----------------------------------------------------------------------------
(* Mock API: src/packages/vanilla/src/mocks/mockApi.js *)

\* items.json: the catalog, in file order (not sorted by price or by title)
Items == <<
    [productId |-> <<"p1">>, title |-> <<"b", "a">>, brand |-> <<"x">>,
     category1 |-> <<"c1">>, category2 |-> <<"c1a">>, lprice |-> <<"1", "0">>],
    [productId |-> <<"p2">>, title |-> <<"A">>, brand |-> <<"y">>,
     category1 |-> <<"c1">>, category2 |-> <<"c1b">>, lprice |-> <<"9">>],
    [productId |-> <<"p3">>, title |-> <<"a", "b">>, brand |-> <<"x">>,
     category1 |-> <<"c2">>, category2 |-> <<"c2a">>, lprice |-> <<"1", "0">>],
    [productId |-> <<"p4">>, title |-> <<"B">>, brand |-> <<"a">>,
     category1 |-> <<"c1">>, category2 |-> <<"c1a">>, lprice |-> <<"2">>] >>

DigitVal(c) ==
    CASE c = "0" -> 0 [] c = "1" -> 1 [] c = "2" -> 2 [] c = "3" -> 3
      [] c = "4" -> 4 [] c = "5" -> 5 [] c = "6" -> 6 [] c = "7" -> 7
      [] c = "8" -> 8 [] c = "9" -> 9

RECURSIVE ParseIntFrom(_, _)
ParseIntFrom(str, acc) ==
    IF str = <<>> THEN acc ELSE ParseIntFrom(Tail(str), 10 * acc + DigitVal(Head(str)))

\* parseInt / Number of a string of decimal digits
parseInt(str) == ParseIntFrom(str, 0)

\* String.prototype.toLowerCase, per symbol
LowerSym(c) == CASE c = "A" -> "a" [] c = "B" -> "b" [] OTHER -> c

toLowerCase(str) == [i \in DOMAIN str |-> LowerSym(str[i])]

\* String.prototype.includes
includes(str, term) ==
    \E i \in 0..(Len(str) - Len(term)) : SubSeq(str, i + 1, i + Len(term)) = term

\* collation rank of a letter: base letter first, lower case before upper case
BaseRank(c) == CASE LowerSym(c) = "a" -> 1 [] LowerSym(c) = "b" -> 2 [] OTHER -> 3
CaseRank(c) == IF LowerSym(c) = c THEN 0 ELSE 1

RECURSIVE LexCompare(_, _, _)
\* negative, zero or positive, comparing the ranks rank[c] symbol by symbol
LexCompare(a, b, rank) ==
    IF a = <<>> /\ b = <<>> THEN 0
    ELSE IF a = <<>> THEN -1
    ELSE IF b = <<>> THEN 1
    ELSE IF rank[Head(a)] # rank[Head(b)] THEN rank[Head(a)] - rank[Head(b)]
    ELSE LexCompare(Tail(a), Tail(b), rank)

\* a.localeCompare(b, "ko"): base letters decide, case breaks ties
localeCompare(a, b) ==
    LET syms == Range(a) \cup Range(b)
        prim == LexCompare(a, b, [c \in syms |-> BaseRank(c)])
    IN IF prim # 0 THEN prim ELSE LexCompare(a, b, [c \in syms |-> CaseRank(c)])

\* the comparator filterProducts passes to Array.prototype.sort for a sort key
Comparator(sort, a, b) ==
    CASE sort = <<"price_asc">> -> parseInt(a.lprice) - parseInt(b.lprice)
      [] sort = <<"price_desc">> -> parseInt(b.lprice) - parseInt(a.lprice)
      [] sort = <<"name_asc">> -> localeCompare(a.title, b.title)
      [] sort = <<"name_desc">> -> localeCompare(b.title, a.title)
      [] OTHER -> parseInt(a.lprice) - parseInt(b.lprice)

RECURSIVE InsertStable(_, _, _)
InsertStable(sorted, x, sort) ==
    IF sorted = <<>> THEN <<x>>
    ELSE IF Comparator(sort, Head(sorted), x) <= 0
         THEN <<Head(sorted)>> \o InsertStable(Tail(sorted), x, sort)
         ELSE <<x>> \o sorted

RECURSIVE SortFrom(_, _, _)
SortFrom(s, acc, sort) ==
    IF s = <<>> THEN acc ELSE SortFrom(Tail(s), InsertStable(acc, Head(s), sort), sort)

\* Array.prototype.sort (stable) with the comparator of the sort key
SortBy(s, sort) == SortFrom(s, <<>>, sort)

\* filterProducts(products, query); an empty string is falsy
filterProducts(products, query) ==
    LET bySearch ==
            IF query.search # <<>>
            THEN LET searchTerm == toLowerCase(query.search)
                 IN SelectSeqBy(products,
                        {item \in Range(products) :
                            \/ includes(toLowerCase(item.title), searchTerm)
                            \/ includes(toLowerCase(item.brand), searchTerm)})
            ELSE products
        byCat1 ==
            IF query.category1 # <<>>
            THEN SelectSeqBy(bySearch, {item \in Range(bySearch) : item.category1 = query.category1})
            ELSE bySearch
        byCat2 ==
            IF query.category2 # <<>>
            THEN SelectSeqBy(byCat1, {item \in Range(byCat1) : item.category2 = query.category2})
            ELSE byCat1
    IN IF query.sort # <<>> THEN SortBy(byCat2, query.sort) ELSE byCat2

\* a destructured parameter with a default: the default replaces undefined only
Param(options, k, default) == IF k \in DOMAIN options THEN options[k] ELSE default

Min(a, b) == IF a < b THEN a ELSE b
Max(a, b) == IF a > b THEN a ELSE b

\* Math.ceil(a / b) for a >= 0, b > 0
Ceil(a, b) == (a + b - 1) \div b

\* a slice that ignores where the page starts
sliceFromFirst(s, start, end) ==
    IF end <= 0 THEN <<>> ELSE SubSeq(s, 1, IF end < Len(s) THEN end ELSE Len(s))

\* Array.prototype.slice(start, end)
slice(s, start, end) ==
    LET from == IF start < 0 THEN Max(Len(s) + start, 0) ELSE Min(start, Len(s))
        to == IF end < 0 THEN Max(Len(s) + end, 0) ELSE Min(end, Len(s))
    IN IF from >= to THEN <<>> ELSE SubSeq(s, from + 1, to)

\* mockGetProducts({page = 1, limit = 20, search = "", category1 = "",
\*                  category2 = "", sort = "price_asc"} = {})
\* over the catalog items
mockGetProductsIn(items, options) ==
    LET page == Param(options, "page", 1)
        limit == Param(options, "limit", 20)
        search == Param(options, "search", <<>>)
        category1 == Param(options, "category1", <<>>)
        category2 == Param(options, "category2", <<>>)
        sort == Param(options, "sort", <<"price_asc">>)
        filtered == filterProducts(items, [search |-> search, category1 |-> category1,
                                           category2 |-> category2, sort |-> sort])
        total == Len(filtered)
        totalPages == Ceil(total, limit)
        currentPage == Min(Max(page, 1), totalPages)
        start == (currentPage - 1) * limit
        end == start + limit
    IN [products |-> slice(filtered, start, end),
        pagination |-> [total |-> total, totalPages |-> totalPages,
                        currentPage |-> currentPage, limit |-> limit],
        filters |-> [search |-> search, category1 |-> category1,
                     category2 |-> category2, sort |-> sort]]

mockGetProducts(options) == mockGetProductsIn(Items, options)

\* mockGetCategories(): category1 -> category2 -> {}, over the catalog items
mockGetCategoriesIn(items) ==
    [cat1 \in {items[i].category1 : i \in DOMAIN items} |->
        [cat2 \in {items[i].category2 : i \in {k \in DOMAIN items : items[k].category1 = cat1}} |->
            EmptyObj]]

mockGetCategories == mockGetCategoriesIn(Items)

\* Math.floor(Math.random() * 2) + 4
Ratings == {4, 5}

\* mockGetProduct(id): items.find(...) with the derived fields added, or null;
\* rating stands for the fields drawn from Math.random()
\* over the catalog items
mockGetProductIn(items, id, rating) ==
    IF \E i \in DOMAIN items : items[i].productId = id
    THEN LET product == items[CHOOSE i \in DOMAIN items :
                                /\ items[i].productId = id
                                /\ \A k \in DOMAIN items : items[k].productId = id => i <= k]
         IN Spread(product, [rating |-> rating])
    ELSE NullObj

mockGetProduct(id, rating) == mockGetProductIn(Items, id, rating)

-----------------------------------------------------------------------------
(* Product store: src/packages/vanilla/src/stores/productStore.js and      *)
(* createStore / createObserver of the bundle (src/unnamed/part_004:317)   *)

\* PRODUCT_ACTIONS
SET_PRODUCTS == "products/setProducts"
ADD_PRODUCTS == "products/addProducts"
SET_LOADING == "products/setLoading"
SET_ERROR == "products/setError"
SET_CATEGORIES == "products/setCategories"
SET_CURRENT_PRODUCT == "products/setCurrentProduct"
SET_RELATED_PRODUCTS == "products/setRelatedProducts"
RESET_FILTERS == "products/resetFilters"
SETUP == "products/setup"
SET_STATUS == "products/setStatus"

PRODUCT_ACTIONS ==
    {SET_PRODUCTS, ADD_PRODUCTS, SET_LOADING, SET_ERROR, SET_CATEGORIES,
     SET_CURRENT_PRODUCT, SET_RELATED_PRODUCTS, RESET_FILTERS, SETUP, SET_STATUS}

\* A snapshot is an object: ref is its identity (what === compares),
\* val its own enumerable properties.
InitialRef == 0

initialProductState ==
    [ref |-> InitialRef,
     val |-> [products |-> <<>>,
              totalCount |-> 0,
              currentProduct |-> NullObj,
              relatedProducts |-> <<>>,
              loading |-> TRUE,
              error |-> Null,
              status |-> "idle",
              categories |-> EmptyObj]]

\* a SETUP in which the current fields win over the payload
SetupKeepsCurrent(current, payload) == Spread(payload, current)

\* case SETUP: return {...state, ...action.payload}
SetupState(current, payload) == Spread(current, payload)

\* an ADD_PRODUCTS that puts the new page before the existing list
AddProductsPrepends(current, payload) ==
    Spread(current, [products |-> payload.products \o current.products,
                     totalCount |-> payload.totalCount,
                     loading |-> FALSE, error |-> Null, status |-> "done"])

\* case ADD_PRODUCTS: products: [...state.products, ...action.payload.products]
AddProductsState(current, payload) ==
    Spread(current, [products |-> current.products \o payload.products,
                     totalCount |-> payload.totalCount,
                     loading |-> FALSE, error |-> Null, status |-> "done"])

\* a SET_RELATED_PRODUCTS that also ends the loading state
SetRelatedProductsClearsLoading(current, payload) ==
    Spread(current, [relatedProducts |-> payload, loading |-> FALSE, status |-> "done"])

\* case SET_RELATED_PRODUCTS
SetRelatedProductsState(current, payload) ==
    Spread(current, [relatedProducts |-> payload, status |-> "done"])

\* a default branch that returns a copy of the state
UnhandledCopies(state, fresh) == [ref |-> fresh, val |-> state.val]

\* default: return state
UnhandledAction(state, fresh) == state

\* productReducer(state, action); fresh is the identity of the object a
\* literal {...} allocates
productReducer(state, action, fresh) ==
    LET New(v) == [ref |-> fresh, val |-> v]
    IN CASE action.type = SET_STATUS ->
              New(Spread(state.val, [status |-> action.payload]))
         [] action.type = SET_CATEGORIES ->
              New(Spread(state.val, [categories |-> action.payload, loading |-> FALSE,
                                     error |-> Null, status |-> "done"]))
         [] action.type = SET_PRODUCTS ->
              New(Spread(state.val, [products |-> action.payload.products,
                                     totalCount |-> action.payload.totalCount,
                                     loading |-> FALSE, error |-> Null, status |-> "done"]))
         [] action.type = ADD_PRODUCTS ->
              New(AddProductsState(state.val, action.payload))
         [] action.type = SET_LOADING ->
              New(Spread(state.val, [loading |-> action.payload]))
         [] action.type = SET_ERROR ->
              New(Spread(state.val, [error |-> action.payload, loading |-> FALSE,
                                     status |-> "done"]))
         [] action.type = SET_CURRENT_PRODUCT ->
              New(Spread(state.val, [currentProduct |-> action.payload, loading |-> FALSE,
                                     error |-> Null, status |-> "done"]))
         [] action.type = SET_RELATED_PRODUCTS ->
              New(SetRelatedProductsState(state.val, action.payload))
         [] action.type = SETUP -> New(SetupState(state.val, action.payload))
         [] OTHER -> UnhandledAction(state, fresh)

\* createStore(reducer, initialState): the new instance is appended to the heap
createStore(heap, initialState) == Append(heap, initialState)

\* createProductStore()
createProductStore(heap) == createStore(heap, initialProductState)

\* productStore, the client singleton, is the first instance created
SingletonId == 1

\* dispatch: let n = reducer(i, t); n !== i && (i = n, notify())
dispatch(heap, id, action, fresh) ==
    LET n == productReducer(heap[id], action, fresh)
    IN IF n.ref # heap[id].ref THEN [heap EXCEPT ![id] = n] ELSE heap

\* a dispatch that notifies without comparing the references
notifyAlways(heap, id, action, fresh, subscribers) == subscribers

\* the callbacks notify() runs for that dispatch: e.forEach(e => e()) over
\* the Set of subscribers, in insertion order, or none
notify(heap, id, action, fresh, subscribers) ==
    IF productReducer(heap[id], action, fresh).ref # heap[id].ref THEN subscribers ELSE <<>>

\* subscribe: Set.prototype.add keeps the first insertion of a callback
subscribe(subscribers, cb) ==
    IF cb \in Range(subscribers) THEN subscribers ELSE Append(subscribers, cb)

\* getActiveStore(): ssrContext.store || productStore  (0 is null)
getActiveStore(slot) == IF slot # 0 THEN slot ELSE SingletonId

-----------------------------------------------------------------------------
(* Router.parseQuery (bundle, src/unnamed/part_004:317) *)

RECURSIVE SplitOn(_, _)
\* String.prototype.split(sep)
SplitOn(str, sep) ==
    LET k == IndexOfSym(str, sep, 1)
    IN IF k = 0 THEN <<str>>
       ELSE <<SubSeq(str, 1, k - 1)>> \o SplitOn(SubSeq(str, k + 1, Len(str)), sep)

RECURSIVE ParsePairs(_, _)
\* for (let [e, r] of new URLSearchParams(q)) n[e] = r
ParsePairs(segs, acc) ==
    IF segs = <<>> THEN acc
    ELSE LET seg == Head(segs)
             e == IndexOfSym(seg, "=", 1)
             key == IF e = 0 THEN seg ELSE SubSeq(seg, 1, e - 1)
             value == IF e = 0 THEN <<>> ELSE SubSeq(seg, e + 1, Len(seg))
         IN ParsePairs(Tail(segs), IF seg = <<>> THEN acc ELSE Spread(acc, key :> value))

\* a query object maps parameter names (strings) to strings
parseQuery(search) ==
    LET body == IF search # <<>> /\ Head(search) = "?" THEN Tail(search) ELSE search
    IN ParsePairs(SplitOn(body, "&"), EmptyObj)

\* query.k is defined and truthy (a non-empty string)
Truthy(query, k) == k \in DOMAIN query /\ query[k] # <<>>

\* query.k || default
OrElse(query, k, default) == IF Truthy(query, k) THEN query[k] ELSE default

-----------------------------------------------------------------------------
(* Server entry: src/unnamed/part_004:127-315 (main-server.js) *)

\* "상품을 찾을 수 없습니다"
NotFoundMessage == "product-not-found"

\* createServerRouter(): new ServerRouter() with the two page routes
createServerRouter ==
    addRoute(addRoute(<<>>, <<>>, <<"/">>, "HomePage"),
             <<>>, <<"/", "product", "/", ":", "id", "/">>, "ProductDetailPage")

\* the options object prefetchData passes to mockGetProducts for the listing:
\* a property whose value is undefined takes the parameter default
ListingOptions(query) ==
    LET names == {"search", "category1", "category2", "sort"}
        given == {k \in names : <<k>> \in DOMAIN query}
        strs == [k \in given |-> query[<<k>>]]
    IN IF Truthy(query, <<"limit">>)
       THEN Spread(strs, [limit |-> parseInt(query[<<"limit">>])])
       ELSE strs

\* prefetchData(path, params, query) over the catalog items; rating is the
\* draw of mockGetProduct
prefetchDataIn(items, path, params, query, rating) ==
    IF path = <<"/">>
    THEN LET r == mockGetProductsIn(items, ListingOptions(query))
         IN [products |-> r.products,
             categories |-> mockGetCategoriesIn(items),
             totalCount |-> r.pagination.total,
             loading |-> FALSE,
             searchQuery |-> OrElse(query, <<"search">>, <<>>),
             category1 |-> OrElse(query, <<"category1">>, <<>>),
             category2 |-> OrElse(query, <<"category2">>, <<>>),
             sort |-> OrElse(query, <<"sort">>, <<"price_asc">>),
             limit |-> IF Truthy(query, <<"limit">>) THEN parseInt(query[<<"limit">>]) ELSE 20]
    ELSE IF path = <<"/", "product", "/", ":", "id", "/">>
    THEN LET currentProduct == mockGetProductIn(items, params[<<"id">>], rating)
         IN IF currentProduct = NullObj
            THEN [error |-> NotFoundMessage]
            ELSE LET products == mockGetProductsIn(items, [category1 |-> currentProduct.category1]).products
                 IN [currentProduct |-> currentProduct,
                     relatedProducts |->
                         SelectSeqBy(products,
                             {q \in Range(products) : q.productId # params[<<"id">>]})]
    ELSE EmptyObj

prefetchData(path, params, query, rating) == prefetchDataIn(Items, path, params, query, rating)

\* where an exception is injected into a render call
Faults == {"none", "prefetch", "related", "page"}

\* the promise prefetchData returns: the function has no await of its own, so
\* its body has run to the end (or thrown) when the caller reaches its await
PrefetchPromise(path, params, query, rating, fault) ==
    LET detail == path = <<"/", "product", "/", ":", "id", "/">>
        found == detail /\ mockGetProduct(params[<<"id">>], rating) # NullObj
    IN IF fault = "prefetch" \/ (fault = "related" /\ found)
       THEN [status |-> "rejected", reason |-> fault]
       ELSE [status |-> "fulfilled", value |-> prefetchData(path, params, query, rating)]

\* extractQueryString(url)
extractQueryString(url) ==
    LET queryIndex == IndexOfSym(url, "?", 1)
    IN IF queryIndex # 0 THEN SubSeq(url, queryIndex, Len(url)) ELSE <<>>

\* a generateTitle that returns the default title for every route
generateTitleDefault(matchedRoute, initialData) == <<"shop-home">>

\* generateTitle(matchedRoute, initialData); "shop - home" is <<"shop-home">>
generateTitle(matchedRoute, initialData) ==
    IF /\ matchedRoute # NullObj
       /\ matchedRoute.path = <<"/", "product", "/", ":", "id", "/">>
       /\ "currentProduct" \in DOMAIN initialData
       /\ initialData.currentProduct # NullObj
    THEN initialData.currentProduct.title \o <<" - ", "shop">>
    ELSE <<"shop-home">>

-----------------------------------------------------------------------------
(* Pages: HomePage.js and ProductDetailPage / NotFoundPage of the bundle.  *)
(* The markup is a function of the values the page reads; it is kept as    *)
(* the record of those values.                                             *)

\* a ?? b on a property that may be absent
Nullish(obj, k, default) == IF k \in DOMAIN obj THEN obj[k] ELSE default

HomePage(productState, routerQuery) ==
    [page |-> "HomePage",
     searchQuery |-> Nullish(productState, "searchQuery", Nullish(routerQuery, <<"search">>, <<>>)),
     limit |-> Nullish(productState, "limit", Nullish(routerQuery, <<"limit">>, 20)),
     sort |-> Nullish(productState, "sort", Nullish(routerQuery, <<"sort">>, <<"price_asc">>)),
     category1 |-> Nullish(productState, "category1", Nullish(routerQuery, <<"category1">>, <<>>)),
     category2 |-> Nullish(productState, "category2", Nullish(routerQuery, <<"category2">>, <<>>)),
     products |-> productState.products,
     loading |-> productState.loading,
     error |-> productState.error,
     totalCount |-> productState.totalCount,
     categories |-> productState.categories,
     hasMore |-> Len(productState.products) < productState.totalCount]

ProductDetailPage(productState) ==
    IF productState.currentProduct # NullObj
    THEN [page |-> "ProductDetailPage", view |-> "detail",
          product |-> productState.currentProduct,
          relatedProducts |-> productState.relatedProducts]
    ELSE IF productState.error # Null
    THEN [page |-> "ProductDetailPage", view |-> "error", error |-> productState.error]
    ELSE [page |-> "ProductDetailPage", view |-> "loading"]

NotFoundPage == [page |-> "NotFoundPage"]

\* a PageComponent that falls back to the listing page instead of NotFoundPage
PageComponentHomeFallback(handler, heap, slot) ==
    IF handler = "ProductDetailPage"
    THEN ProductDetailPage(heap[getActiveStore(slot)].val)
    ELSE HomePage(heap[getActiveStore(slot)].val, EmptyObj)

\* PageComponent(): the handler looks the store up through getActiveStore()
PageComponent(handler, heap, slot) ==
    CASE handler = "HomePage" -> HomePage(heap[getActiveStore(slot)].val, EmptyObj)
      [] handler = "ProductDetailPage" -> ProductDetailPage(heap[getActiveStore(slot)].val)
      [] OTHER -> NotFoundPage

\* the store a page function reads, 0 when it reads none
ReadsStore(handler, slot) ==
    IF handler \in {"HomePage", "ProductDetailPage"} THEN getActiveStore(slot) ELSE 0

-----------------------------------------------------------------------------
(* render(url): src/unnamed/part_004:278-315 *)

Requests == 1..MaxReq

\* URLs handed to render: listing, listing with a query, detail of existing
\* and of missing products, and a path no route matches
RenderUrls ==
    {<<"/">>,
     <<"/", "?", "search", "=", "a", "&", "limit", "=", "2">>,
     <<"/", "product", "/", "p1", "/">>,
     <<"/", "product", "/", "zz", "/">>,
     <<"/", "404">>}

\* a createSSRStore that hands out the client singleton instead of a new store
createSSRStoreShared(heap) ==
    [heap |-> heap, store |-> SingletonId, slot |-> SingletonId]

\* createSSRStore(): const store = createProductStore(); ssrContext.store = store
createSSRStore(heap) ==
    [heap |-> createProductStore(heap), store |-> Len(heap) + 1, slot |-> Len(heap) + 1]

\* cleanupSSRContext(): ssrContext.store = null
cleanupSSRContext == 0

\* a release placed after the return value instead of in a finally block
ReleaseOnSuccessOnly(slot, threw) == IF threw THEN slot ELSE cleanupSSRContext

\* try { ... } finally { cleanupSSRContext() }: the slot after render has
\* left the try block, normally or by an exception
ReleaseOnExit(slot, threw) == cleanupSSRContext

\* Steps 5 and 6 swapped: the page is rendered before the store is seeded
RenderThenSeed(heap, own, slot, handler, initialData, fresh) ==
    LET seeded == dispatch(heap, own, [type |-> SETUP, payload |-> initialData], fresh)
    IN [heap |-> seeded,
        ownState |-> heap[own],
        readFrom |-> ReadsStore(handler, slot),
        readState |-> IF ReadsStore(handler, slot) # 0
                      THEN heap[ReadsStore(handler, slot)] ELSE NullObj,
        html |-> PageComponent(handler, heap, slot)]

\* Steps 5 and 6: store.dispatch({type: SETUP, payload: initialData}) on the
\* request's own store, then PageComponent()
SeedAndRender(heap, own, slot, handler, initialData, fresh) ==
    LET seeded == dispatch(heap, own, [type |-> SETUP, payload |-> initialData], fresh)
    IN [heap |-> seeded,
        ownState |-> seeded[own],
        readFrom |-> ReadsStore(handler, slot),
        readState |-> IF ReadsStore(handler, slot) # 0
                      THEN seeded[ReadsStore(handler, slot)] ELSE NullObj,
        html |-> PageComponent(handler, seeded, slot)]

\* the part of render after Step 4, up to the settled promise
RenderRest(rq, heap, slot, fresh) ==
    LET handler == IF rq.matchedRoute # NullObj THEN rq.matchedRoute.handler ELSE "NotFoundPage"
    IN IF rq.promise.status = "rejected"
       THEN [heap |-> heap, dispatched |-> FALSE,
             rq |-> Spread(rq, [pc |-> "settled",
                       stages |-> rq.stages \o <<"release">>,
                       rendered |-> FALSE,
                       slotAtExit |-> ReleaseOnExit(slot, TRUE),
                       outcome |-> [status |-> "rejected", reason |-> rq.promise.reason]])]
       ELSE LET initialData == rq.promise.value
                sr == SeedAndRender(heap, rq.store, slot, handler, initialData, fresh)
            IN IF rq.fault = "page"
               THEN [heap |-> sr.heap, dispatched |-> TRUE,
                     rq |-> Spread(rq, [pc |-> "settled",
                               stages |-> rq.stages \o <<"setup", "page", "release">>,
                               rendered |-> FALSE,
                               slotAtExit |-> ReleaseOnExit(slot, TRUE),
                               outcome |-> [status |-> "rejected", reason |-> "page"]])]
               ELSE [heap |-> sr.heap, dispatched |-> TRUE,
                     rq |-> Spread(rq, [pc |-> "settled",
                               stages |-> rq.stages \o <<"setup", "page", "title", "return", "release">>,
                               rendered |-> TRUE,
                               ownState |-> sr.ownState,
                               readFrom |-> sr.readFrom,
                               readState |-> sr.readState,
                               slotAtExit |-> ReleaseOnExit(slot, FALSE),
                               outcome |-> [status |-> "fulfilled",
                                            value |-> [html |-> sr.html,
                                                       head |-> <<"<title>">> \o generateTitle(rq.matchedRoute, initialData) \o <<"</title>">>,
                                                       initialData |-> initialData]]])]

\* some other call is suspended at its await
OthersInFlight(r) == \E o \in Requests \ {r} : req[o].pc = "await"

\* render(url) is called: Steps 1-4 run up to the await of prefetchData; for
\* an unmatched URL there is no await and the call runs to its end.  The
\* calls are numbered in the order in which they are made.
RenderCall(r, url, fault, rating) ==
    /\ req[r].pc = "idle"
    /\ \A o \in Requests : o < r => req[o].pc # "idle"
    /\ LET cs == createSSRStore(stores)
           matchedRoute == match(createServerRouter, url)
           query == parseQuery(extractQueryString(url))
           started == [pc |-> "await", url |-> url, fault |-> fault, store |-> cs.store,
                       seed |-> cs.heap[cs.store],
                       slotAtEntry |-> cs.slot,
                       matchedRoute |-> matchedRoute, query |-> query,
                       overlapped |-> OthersInFlight(r),
                       stages |-> <<"acquire", "match", "parseQuery">>]
       IN IF matchedRoute # NullObj
          THEN /\ fault = "related" =>
                      PrefetchPromise(matchedRoute.path, matchedRoute.params, query, rating, fault).status = "rejected"
               /\ req' = [o \in Requests |->
                            IF o = r
                            THEN Spread(started,
                                   [promise |-> PrefetchPromise(matchedRoute.path, matchedRoute.params,
                                                                query, rating, fault),
                                    stages |-> started.stages \o <<"prefetch">>])
                            ELSE IF req[o].pc = "await"
                                 THEN Spread(req[o], [overlapped |-> TRUE])
                                 ELSE req[o]]
               /\ stores' = cs.heap
               /\ ssrStore' = cs.slot
               /\ UNCHANGED nextRef
          ELSE /\ fault \in {"none", "page"}
               /\ LET rest == RenderRest(Spread(started,
                                   [promise |-> [status |-> "fulfilled", value |-> EmptyObj]]),
                                   cs.heap, cs.slot, nextRef)
                  IN /\ req' = [o \in Requests |->
                                  IF o = r THEN rest.rq
                                  ELSE IF req[o].pc = "await"
                                       THEN Spread(req[o], [overlapped |-> TRUE])
                                       ELSE req[o]]
                     /\ stores' = rest.heap
                     /\ ssrStore' = rest.rq.slotAtExit
                     /\ nextRef' = IF rest.dispatched THEN nextRef + 1 ELSE nextRef
    /\ subs' = Append(subs, <<>>)
    /\ notified' = <<>>
    /\ UNCHANGED <<routes, regLog, lastUrl, matchResult, lastAction, client, prefetched, composed, ssg, http, queried, view, dev, feed, nav, related>>

\* the continuation after the await: Steps 5-9
RenderResume(r) ==
    /\ req[r].pc = "await"
    /\ LET rest == RenderRest(req[r], stores, ssrStore, nextRef)
       IN /\ req' = [req EXCEPT ![r] = rest.rq]
          /\ stores' = rest.heap
          /\ ssrStore' = rest.rq.slotAtExit
          /\ nextRef' = IF rest.dispatched THEN nextRef + 1 ELSE nextRef
    /\ notified' = <<>>
    /\ UNCHANGED <<routes, regLog, lastUrl, matchResult, lastAction, subs, client, prefetched, composed, ssg, http, queried, view, dev, feed, nav, related>>

\* the program after its modules have loaded
InitProgram ==
    /\ routes = <<>>
    /\ regLog = <<>>
    /\ lastUrl = [called |-> FALSE, url |-> <<>>, pattern |-> <<>>, vals |-> EmptyObj,
                  suffix |-> <<>>, log |-> <<>>]
    /\ matchResult = NullObj
    /\ stores = <<initialProductState>>
    /\ subs = << <<>> >>
    /\ notified = <<>>
    /\ lastAction = <<>>
    /\ nextRef = 1
    /\ ssrStore = 0
    /\ req = [r \in Requests |-> [pc |-> "idle"]]
    /\ client = [pc |-> "unloaded", store |-> initialProductState,
                 query |-> [search |-> <<>>, limit |-> 0, current |-> 0],
                 calls |-> 0, tasks |-> <<>>,
                 window |-> [present |-> FALSE, data |-> EmptyObj],
                 document |-> [present |-> FALSE, data |-> EmptyObj],
                 log |-> <<>>, rendered |-> FALSE, atStart |-> initialProductState,
                 settled |-> [status |-> "none"]]

\* no call made yet
NoCall == [called |-> FALSE]

Init ==
    /\ InitProgram
    /\ prefetched = NoCall
    /\ composed = NoCall
    /\ ssg = [pc |-> "idle"]
    /\ http = [pc |-> "idle"]
    /\ queried = NoCall
    /\ view = [pc |-> "closed"]
    /\ dev = [template |-> [kind |-> "unset"], render |-> 0,
              handlers |-> [r \in Requests |-> [pc |-> "idle"]]]
    /\ feed = [pc |-> "closed"]
    /\ nav = [pc |-> "closed"]
    /\ related = [pc |-> "closed"]

Next ==
    \/ \E r \in Requests, url \in RenderUrls, fault \in Faults, rating \in Ratings :
          RenderCall(r, url, fault, rating)
    \/ \E r \in Requests : RenderResume(r)

Spec == Init /\ [][Next]_vars

-----------------------------------------------------------------------------
(* Properties of render(url) *)

Settled(r) == req[r].pc = "settled"

\* the snapshot contents a call's page must see: the initial snapshot
\* overlaid with the call's own prefetched data
OwnView(r) == Spread(initialProductState.val, req[r].outcome.value.initialData)

\* C1: whenever a page render function of a render call reads the product
\* store, it reads that call's own store, and the snapshot it reads is the
\* initial snapshot overlaid with the call's own initialData, however the
\* calls interleave at the await of prefetchData.
C1_EachCallReadsOnlyItsOwnData ==
    \A r \in Requests :
        (Settled(r) /\ req[r].rendered /\ req[r].readFrom # 0) =>
            /\ req[r].readFrom = req[r].store
            /\ req[r].readState.val = OwnView(r)

\* C2: the step in which a render call settles leaves ssrContext.store null,
\* on the normal path and on both throwing paths, and a thrown exception is
\* the rejection reason of the call.
C2_SlotReleasedOnEveryExit ==
    [][\A r \in Requests :
          (req[r].pc # "settled" /\ req'[r].pc = "settled") =>
              /\ ssrStore' = 0
              /\ req'[r].promise.status = "rejected" =>
                    req'[r].outcome = [status |-> "rejected", reason |-> req'[r].promise.reason]
              /\ (req'[r].promise.status = "fulfilled" /\ req'[r].fault = "page") =>
                    req'[r].outcome = [status |-> "rejected", reason |-> "page"]
              /\ (req'[r].promise.status = "fulfilled" /\ req'[r].fault # "page") =>
                    req'[r].outcome.status = "fulfilled"]_vars

\* a call whose prefetch threw and a call whose page threw have both settled
C2_Witness ==
    /\ ssrStore = 0
    /\ \E r \in Requests :
          Settled(r) /\ req[r].outcome = [status |-> "rejected", reason |-> "prefetch"]
    /\ \E r \in Requests :
          Settled(r) /\ req[r].outcome = [status |-> "rejected", reason |-> "page"]

\* C3: a render call creates a store that did not exist before, whose state
\* is initialProductState, and puts it in the slot; and a call that did not
\* overlap any other call reads its own store, holding the initial snapshot
\* overlaid with its own prefetched data only, whatever earlier calls did.
C3_FreshStorePerCall ==
    [][\A r \in Requests :
          /\ (req[r].pc = "idle" /\ req'[r].pc # "idle") =>
                /\ req'[r].store \notin DOMAIN stores
                /\ req'[r].store \in DOMAIN stores'
                /\ req'[r].seed = initialProductState
                /\ req'[r].slotAtEntry = req'[r].store
                /\ req'[r].pc = "await" => ssrStore' = req'[r].store
          /\ (req[r].pc # "settled" /\ req'[r].pc = "settled"
                /\ ~req'[r].overlapped /\ req'[r].rendered /\ req'[r].readFrom # 0) =>
                /\ req'[r].readFrom = req'[r].store
                /\ req'[r].readState.val =
                      Spread(initialProductState.val, req'[r].outcome.value.initialData)]_vars

\* two calls one after the other: the first seeded its store and threw in
\* the page, the second rendered a page that reads the store
C3_Witness ==
    \E r1, r2 \in Requests :
        /\ Settled(r1) /\ Settled(r2)
        /\ ~req[r1].overlapped /\ ~req[r2].overlapped
        /\ req[r1].store < req[r2].store
        /\ req[r1].outcome = [status |-> "rejected", reason |-> "page"]
        /\ stores[req[r1].store].val # initialProductState.val
        /\ req[r2].rendered /\ req[r2].readFrom # 0
        /\ req[r2].outcome.value.initialData # EmptyObj

\* the stages of render in source order
StageOrder ==
    <<"acquire", "match", "parseQuery", "prefetch", "setup", "page", "title", "return", "release">>

StageIndex(st) == CHOOSE i \in DOMAIN StageOrder : StageOrder[i] = st

\* C4: the stages a call has run appear in the fixed order of the source,
\* and when its page render function is invoked its own store already holds
\* the result of its SETUP dispatch, in every interleaving.
C4_SetupBeforePageRender ==
    \A r \in Requests :
        req[r].pc # "idle" =>
            /\ \A i, j \in DOMAIN req[r].stages :
                  i < j => StageIndex(req[r].stages[i]) < StageIndex(req[r].stages[j])
            /\ (Settled(r) /\ req[r].rendered) =>
                  /\ req[r].ownState.ref # InitialRef
                  /\ req[r].ownState.val = OwnView(r)

\* a call that was overlapped by another one has rendered a page from data
C4_Witness ==
    \E r \in Requests :
        /\ Settled(r) /\ req[r].rendered /\ req[r].overlapped
        /\ req[r].outcome.value.initialData # EmptyObj
        /\ req[r].stages = SelectSeq(StageOrder, LAMBDA st : TRUE)

-----------------------------------------------------------------------------
(* The product store under dispatch and subscribe *)

Callbacks == {"render", "log"}

\* the latest two dispatches, oldest first
Remember(log, entry) ==
    IF Len(log) < 2 THEN Append(log, entry) ELSE <<log[2], entry>>

\* productStore.dispatch(action)
Dispatch(action) ==
    /\ nextRef <= MaxDispatch
    /\ stores' = dispatch(stores, SingletonId, action, nextRef)
    /\ notified' = notify(stores, SingletonId, action, nextRef, subs[SingletonId])
    /\ nextRef' = IF stores' # stores THEN nextRef + 1 ELSE nextRef
    /\ lastAction' = Remember(lastAction,
                        [action |-> action, before |-> stores[SingletonId],
                         fresh |-> nextRef, subscribers |-> subs[SingletonId]])
    /\ UNCHANGED <<routes, regLog, lastUrl, matchResult, subs, ssrStore, req, client, prefetched, composed, ssg, http, queried, view, dev, feed, nav, related>>

\* productStore.subscribe(cb)
Subscribe(cb) ==
    /\ Len(subs[SingletonId]) < MaxSubs
    /\ subs' = [subs EXCEPT ![SingletonId] = subscribe(@, cb)]
    /\ UNCHANGED <<routes, regLog, lastUrl, matchResult, stores, notified, lastAction,
                   nextRef, ssrStore, req, client, prefetched, composed, ssg, http, queried, view, dev, feed, nav, related>>

SetupPayloads ==
    {EmptyObj,
     [loading |-> FALSE],
     [error |-> NotFoundMessage],
     [searchQuery |-> <<"a">>],
     [searchQuery |-> <<"b">>, loading |-> TRUE, status |-> "pending"]}

ListPayloads ==
    {[products |-> <<Items[2]>>, totalCount |-> 4],
     [products |-> <<Items[1], Items[3]>>, totalCount |-> 2]}

DispatchSetStatus == \E p \in {"pending"} : Dispatch([type |-> SET_STATUS, payload |-> p])
DispatchSetLoading == \E p \in BOOLEAN : Dispatch([type |-> SET_LOADING, payload |-> p])
DispatchSetError == \E p \in {"boom"} : Dispatch([type |-> SET_ERROR, payload |-> p])
DispatchSetProducts == \E p \in ListPayloads : Dispatch([type |-> SET_PRODUCTS, payload |-> p])
DispatchAddProducts == \E p \in ListPayloads : Dispatch([type |-> ADD_PRODUCTS, payload |-> p])
DispatchSetCategories == Dispatch([type |-> SET_CATEGORIES, payload |-> mockGetCategories])
DispatchSetCurrentProduct ==
    \E p \in {NullObj, mockGetProduct(<<"p1">>, 4)} :
        Dispatch([type |-> SET_CURRENT_PRODUCT, payload |-> p])
DispatchSetRelatedProducts ==
    \E p \in {<<Items[4]>>} : Dispatch([type |-> SET_RELATED_PRODUCTS, payload |-> p])
DispatchSetup == \E p \in SetupPayloads : Dispatch([type |-> SETUP, payload |-> p])
DispatchUnhandled ==
    \E t \in {RESET_FILTERS, "cart/addItem", "unknown"} : Dispatch([type |-> t, payload |-> Null])

NextStore ==
    \/ \E cb \in Callbacks : Subscribe(cb)
    \/ DispatchSetStatus
    \/ DispatchSetLoading
    \/ DispatchSetError
    \/ DispatchSetProducts
    \/ DispatchAddProducts
    \/ DispatchSetCategories
    \/ DispatchSetCurrentProduct
    \/ DispatchSetRelatedProducts
    \/ DispatchSetup
    \/ DispatchUnhandled

SpecStore == Init /\ [][NextStore]_vars

Latest == lastAction[Len(lastAction)]

NoDuplicates(seq) == \A i, j \in DOMAIN seq : seq[i] = seq[j] => i = j

\* C5: after a dispatch, with next the reducer's result for the state
\* before and the action: if next is another object than the state before,
\* the store holds next and the dispatch called each subscriber exactly once
\* in subscription order; otherwise the store holds the state before and no
\* subscriber was called.
C5_DispatchAdoptsAndNotifies ==
    lastAction # <<>> =>
        LET next == productReducer(Latest.before, Latest.action, Latest.fresh)
        IN IF next.ref # Latest.before.ref
           THEN /\ stores[SingletonId] = next
                /\ notified = Latest.subscribers
                /\ NoDuplicates(notified)
           ELSE /\ stores[SingletonId] = Latest.before
                /\ notified = <<>>

\* two subscribers were notified by a state-changing dispatch
C5_Witness ==
    /\ lastAction # <<>>
    /\ stores[SingletonId].ref # Latest.before.ref
    /\ Len(notified) = 2

\* C6: after dispatching an action whose type is not one of PRODUCT_ACTIONS
\* the store holds the very same snapshot object as before and the dispatch
\* called no subscriber.
C6_UnknownActionIsNoOp ==
    (lastAction # <<>> /\ Latest.action.type \notin PRODUCT_ACTIONS) =>
        /\ stores[SingletonId].ref = Latest.before.ref
        /\ stores[SingletonId] = Latest.before
        /\ notified = <<>>

\* an unknown action was dispatched to a store that has subscribers and a
\* state other than the initial one
C6_Witness ==
    /\ lastAction # <<>>
    /\ Latest.action.type \notin PRODUCT_ACTIONS
    /\ Latest.subscribers # <<>>
    /\ Latest.before.ref # InitialRef

\* C7: after SETUP(p1) directly followed by SETUP(p2) on a state s, the
\* snapshot contents are s overlaid with (p1 overlaid with p2), and the
\* fields of s that neither payload names are those of s.
C7_SetupTwiceIsSetupOfMerge ==
    (Len(lastAction) = 2 /\ lastAction[1].action.type = SETUP
                         /\ lastAction[2].action.type = SETUP) =>
        LET s == lastAction[1].before.val
            p1 == lastAction[1].action.payload
            p2 == lastAction[2].action.payload
            merged == [k \in DOMAIN p1 \cup DOMAIN p2 |-> IF k \in DOMAIN p2 THEN p2[k] ELSE p1[k]]
            now == stores[SingletonId].val
        IN /\ DOMAIN now = DOMAIN s \cup DOMAIN merged
           /\ \A k \in DOMAIN merged : now[k] = merged[k]
           /\ \A k \in DOMAIN s \ DOMAIN merged : now[k] = s[k]

\* two SETUPs whose payloads share a key with different values, on a state
\* that has fields neither of them names
C7_Witness ==
    /\ Len(lastAction) = 2
    /\ lastAction[1].action.type = SETUP
    /\ lastAction[2].action.type = SETUP
    /\ "searchQuery" \in DOMAIN lastAction[1].action.payload
    /\ "searchQuery" \in DOMAIN lastAction[2].action.payload
    /\ lastAction[1].action.payload.searchQuery # lastAction[2].action.payload.searchQuery
    /\ DOMAIN lastAction[1].before.val \ (DOMAIN lastAction[1].action.payload
                                             \cup DOMAIN lastAction[2].action.payload) # {}

-----------------------------------------------------------------------------
(* The server router under addRoute and match *)

\* patterns handed to addRoute: the two the server registers, one that
\* overlaps the detail route, and one whose placeholders share a segment
RoutePatterns ==
    {<<"/">>,
     <<"/", "product", "/", ":", "id", "/">>,
     <<"/", ":", "a", "/", ":", "b", "/">>,
     <<"/", ":", "a", ":", "b", "/">>}

\* the addRoute calls tried: each pattern with a handler, and the root
\* pattern with a second handler (a re-registration)
Registrations ==
    {[path |-> pattern, handler |-> IF pattern = <<"/">> THEN "HomePage" ELSE "ProductDetailPage"] :
        pattern \in RoutePatterns}
    \cup {[path |-> <<"/">>, handler |-> "NotFoundPage"]}

\* strings without a slash substituted for a placeholder
Values == {<<>>, <<"p1">>, <<"x", "?", "y">>, <<"product">>}

QuerySuffixes == {<<>>, <<"?", "sort", "=", "x">>}

OtherUrls ==
    {<<>>, <<"/", "404">>, <<"/", "product", "/", "p1">>,
     <<"/", "?", "/", "product", "/", "p1", "/">>}

RECURSIVE Substitute(_, _, _)
\* the URL built from a pattern by putting vals[name] in place of every :name
Substitute(pattern, vals, i) ==
    IF i > Len(pattern) THEN <<>>
    ELSE IF pattern[i] = ":" /\ i < Len(pattern) /\ IsWord(pattern[i + 1])
         THEN LET j == WordEnd(pattern, i + 1)
              IN vals[SubSeq(pattern, i + 1, j)] \o Substitute(pattern, vals, j + 1)
         ELSE <<pattern[i]>> \o Substitute(pattern, vals, i + 1)

\* router.addRoute(path, handler)
AddRoute(path, handler) ==
    /\ Len(regLog) < MaxRoutes
    /\ routes' = addRoute(routes, <<>>, path, handler)
    /\ regLog' = Append(regLog, [path |-> path, handler |-> handler])
    /\ UNCHANGED <<lastUrl, matchResult, stores, subs, notified, lastAction,
                   nextRef, ssrStore, req, client, prefetched, composed, ssg, http, queried, view, dev, feed, nav, related>>

\* router.match(url) on a URL built from a registered pattern
MatchSubstituted(i, vals, suffix) ==
    /\ i \in DOMAIN routes
    /\ LET url == Substitute(routes[i].path, vals, 1) \o suffix
       IN /\ lastUrl' = [called |-> TRUE, url |-> url, pattern |-> routes[i].path,
                         vals |-> vals, suffix |-> suffix, log |-> regLog]
          /\ matchResult' = match(routes, url)
    /\ UNCHANGED <<routes, regLog, stores, subs, notified, lastAction, nextRef,
                   ssrStore, req, client, prefetched, composed, ssg, http, queried, view, dev, feed, nav, related>>

\* router.match(url) on any other URL
MatchUrl(url) ==
    /\ lastUrl' = [called |-> TRUE, url |-> url, pattern |-> <<>>, vals |-> EmptyObj,
                   suffix |-> <<>>, log |-> regLog]
    /\ matchResult' = match(routes, url)
    /\ UNCHANGED <<routes, regLog, stores, subs, notified, lastAction, nextRef,
                   ssrStore, req, client, prefetched, composed, ssg, http, queried, view, dev, feed, nav, related>>

NextRouter ==
    \/ \E reg \in Registrations : AddRoute(reg.path, reg.handler)
    \/ \E i \in 1..MaxRoutes :
          /\ i \in DOMAIN routes
          /\ \E vals \in [Range(routes[i].paramNames) -> Values], suffix \in QuerySuffixes :
                MatchSubstituted(i, vals, suffix)
    \/ \E url \in OtherUrls : MatchUrl(url)

SpecRouter == Init /\ [][NextRouter]_vars

-----------------------------------------------------------------------------
(* Properties of the router, stated without the regular-expression engine *)

RECURSIVE Shape(_, _)
\* a pattern as the sequence of its literal symbols and placeholders
Shape(pattern, i) ==
    IF i > Len(pattern) THEN <<>>
    ELSE IF pattern[i] = ":" /\ i < Len(pattern) /\ IsWord(pattern[i + 1])
         THEN <<[hole |-> TRUE, name |-> SubSeq(pattern, i + 1, WordEnd(pattern, i + 1))]>>
                  \o Shape(pattern, WordEnd(pattern, i + 1) + 1)
         ELSE <<[hole |-> FALSE, name |-> <<pattern[i]>>]>> \o Shape(pattern, i + 1)

Holes(pattern) == SelectSeq(Shape(pattern, 1), LAMBDA it : it.hole)

RECURSIVE Fill(_, _, _)
\* the shape with the k-th placeholder replaced by caps[k]
Fill(shape, caps, k) ==
    IF shape = <<>> THEN <<>>
    ELSE IF Head(shape).hole THEN caps[k] \o Fill(Tail(shape), caps, k + 1)
         ELSE Head(shape).name \o Fill(Tail(shape), caps, k)

\* the non-empty slash-free pieces of a path
Pieces(path) ==
    {SubSeq(path, i, j) : i \in 1..Len(path), j \in 1..Len(path)} \
        {piece \in {SubSeq(path, i, j) : i \in 1..Len(path), j \in 1..Len(path)} :
            piece = <<>> \/ "/" \in Range(piece)}

\* the anchored pattern matches the whole path
Accepts(pattern, path) ==
    \E caps \in [1..Len(Holes(pattern)) -> Pieces(path)] :
        Fill(Shape(pattern, 1), caps, 1) = path

\* everything before the first "?"
BeforeQuery(url) ==
    IF "?" \in Range(url)
    THEN SubSeq(url, 1, (CHOOSE i \in DOMAIN url :
                            url[i] = "?" /\ \A k \in 1..(i - 1) : url[k] # "?") - 1)
    ELSE url

\* the registered patterns in the order of their first registration
RECURSIVE FirstRegistered(_, _)
FirstRegistered(log, seen) ==
    IF log = <<>> THEN <<>>
    ELSE IF Head(log).path \in seen THEN FirstRegistered(Tail(log), seen)
         ELSE <<Head(log).path>> \o FirstRegistered(Tail(log), seen \cup {Head(log).path})

\* the handler of the latest registration of a pattern
LatestHandler(log, path) ==
    log[CHOOSE i \in DOMAIN log :
            log[i].path = path /\ \A k \in DOMAIN log : log[k].path = path => k <= i].handler

DistinctNames(pattern) ==
    \A i, j \in DOMAIN Holes(pattern) : Holes(pattern)[i].name = Holes(pattern)[j].name => i = j

\* every placeholder is a whole path segment: a slash before it, and a slash
\* or the end of the pattern after it
WholeSegments(pattern) ==
    \A i \in DOMAIN Shape(pattern, 1) :
        Shape(pattern, 1)[i].hole =>
            /\ i > 1 /\ Shape(pattern, 1)[i - 1] = [hole |-> FALSE, name |-> <<"/">>]
            /\ i < Len(Shape(pattern, 1)) =>
                  Shape(pattern, 1)[i + 1] = [hole |-> FALSE, name |-> <<"/">>]

C10_FirstRegisteredMatchWins ==
    lastUrl.called =>
        LET path == BeforeQuery(lastUrl.url)
            order == FirstRegistered(lastUrl.log, {})
            hits == {i \in DOMAIN order : Accepts(order[i], path)}
        IN IF hits = {} THEN matchResult = NullObj
           ELSE LET first == CHOOSE i \in hits : \A k \in hits : i <= k
                    holes == Holes(order[first])
                IN /\ matchResult # NullObj
                   /\ matchResult.path = order[first]
                   /\ matchResult.handler = LatestHandler(lastUrl.log, order[first])
                   /\ DOMAIN matchResult.params = {holes[i].name : i \in DOMAIN holes}
                   /\ DistinctNames(order[first]) =>
                         /\ \A i \in DOMAIN holes :
                               matchResult.params[holes[i].name] \in Pieces(path)
                         /\ Fill(Shape(order[first], 1),
                                 [i \in DOMAIN holes |-> matchResult.params[holes[i].name]],
                                 1) = path

\* a URL with a query string matched two registered patterns and the one
\* registered first was returned
C10_Witness ==
    /\ lastUrl.called
    /\ "?" \in Range(lastUrl.url)
    /\ Len(FirstRegistered(lastUrl.log, {})) = 2
    /\ Accepts(lastUrl.log[1].path, BeforeQuery(lastUrl.url))
    /\ Accepts(lastUrl.log[2].path, BeforeQuery(lastUrl.url))
    /\ matchResult # NullObj
    /\ matchResult.path = lastUrl.log[1].path

-----------------------------------------------------------------------------
(* Browser: main.js (src/unnamed/part_003), the product services           *)
(* (src/unnamed/part_002) and the API functions of the bundle               *)

\* everything outside the browser
serverVars == <<routes, regLog, lastUrl, matchResult, stores, subs, notified,
                lastAction, ssrStore, req, prefetched, composed, ssg, http, queried, view, dev, feed, nav, related>>

\* the value the inline script of injectSSRResult assigns to
\* window.__INITIAL_DATA__: rendered.initialData ?? {}, which holds strings,
\* numbers, booleans, arrays and plain objects only
SlotData(rendered) == Nullish(rendered, "initialData", EmptyObj)

\* getActiveStore().dispatch(action) in the browser, where ssrContext.store
\* stays null and the active store is productStore
ClientDispatch(store, action, fresh) ==
    dispatch(<<store>>, getActiveStore(0), action, fresh)[SingletonId]

\* hydrateFromServer(): present tells whether window.__INITIAL_DATA__ is set
hydrateFromServer(store, present, initialData, fresh) ==
    IF present
    THEN ClientDispatch(store, [type |-> SETUP, payload |-> initialData], fresh)
    ELSE store

\* Router.getUrl(newQuery): {...parseQuery(), ...newQuery} without the null,
\* undefined and '' entries; an absent entry is kept as <<>> or 0
SetQuery(query, newQuery) == Spread(query, newQuery)

\* a service call suspended at an await
Task(op, resetList, productId) ==
    [op |-> op, resetList |-> resetList, productId |-> productId]

Without(tasks, i) == SubSeq(tasks, 1, i - 1) \o SubSeq(tasks, i + 1, Len(tasks))

\* a loadProducts whose first SETUP leaves the previous error in place
LoadProductsPendingKeepsError == [loading |-> TRUE, status |-> "pending"]

\* loadProducts: payload of the SETUP dispatched before the request
LoadProductsPending == [loading |-> TRUE, status |-> "pending", error |-> Null]

\* a loadProductsAndCategories without the early return
loadProductsAndCategoriesAlways(c, fresh) ==
    Spread(c,
      [query |-> SetQuery(c.query, [current |-> 0]),
       store |-> ClientDispatch(c.store,
                   [type |-> SETUP,
                    payload |-> Spread(initialProductState.val,
                                  [loading |-> TRUE, status |-> "pending"])],
                   fresh),
       tasks |-> Append(c.tasks, Task("loadProductsAndCategories", TRUE, <<>>))])

\* loadProductsAndCategories(), up to its await
loadProductsAndCategories(c, fresh) ==
    IF Len(c.store.val.products) > 0
    THEN c
    ELSE Spread(c,
           [query |-> SetQuery(c.query, [current |-> 0]),
            store |-> ClientDispatch(c.store,
                        [type |-> SETUP,
                         payload |-> Spread(initialProductState.val,
                                       [loading |-> TRUE, status |-> "pending"])],
                        fresh),
            tasks |-> Append(c.tasks, Task("loadProductsAndCategories", TRUE, <<>>))])

\* loadProducts(resetList), up to its await
loadProducts(c, resetList, fresh) ==
    Spread(c,
      [store |-> ClientDispatch(c.store, [type |-> SETUP, payload |-> LoadProductsPending],
                                fresh),
       tasks |-> Append(c.tasks, Task("loadProducts", resetList, <<>>))])

\* Number(router.query.current ?? 1)
CurrentPage(query) == IF query.current = 0 THEN 1 ELSE query.current

\* loadMoreProducts(), up to the await inside loadProducts(false)
loadMoreProducts(c, fresh) ==
    LET state == c.store.val
        hasMore == Len(state.products) < state.totalCount
    IN IF ~hasMore \/ state.loading
       THEN c
       ELSE loadProducts(
              Spread(c, [query |-> SetQuery(c.query, [current |-> CurrentPage(c.query) + 1])]),
              FALSE, fresh)

\* searchProducts(search)
searchProducts(c, search) ==
    Spread(c, [query |-> SetQuery(c.query, [search |-> search, current |-> 1])])

\* a property read that is truthy: present and not ''
HasText(obj, k) == k \in DOMAIN obj /\ obj[k] # <<>>

\* currentProduct?.productId === productId
IsCurrent(currentProduct, productId) ==
    currentProduct # NullObj /\ "productId" \in DOMAIN currentProduct
        /\ currentProduct.productId = productId

\* loadProductDetailForPage(productId), up to its first await
loadProductDetailForPage(c, productId, fresh) ==
    LET state == c.store.val
    IN IF IsCurrent(state.currentProduct, productId) /\ Len(state.relatedProducts) > 0
       THEN c
       ELSE IF IsCurrent(state.currentProduct, productId)
       THEN IF HasText(state.currentProduct, "category2")
            THEN Spread(c, [tasks |-> Append(c.tasks,
                                        Task("loadRelatedProducts", TRUE, productId))])
            ELSE c
       ELSE Spread(c,
              [store |-> ClientDispatch(c.store,
                           [type |-> SETUP,
                            payload |-> Spread(initialProductState.val,
                                          [currentProduct |-> NullObj, loading |-> TRUE,
                                           status |-> "pending"])],
                           fresh),
               tasks |-> Append(c.tasks, Task("loadProductDetailForPage", TRUE, productId))])

\* loadProductsAndCategories after Promise.all has fulfilled
ListingLoaded(store, body, categories, fresh) ==
    ClientDispatch(store,
      [type |-> SETUP,
       payload |-> [products |-> body.products, categories |-> categories,
                    totalCount |-> body.pagination.total, loading |-> FALSE,
                    status |-> "done"]],
      fresh)

\* loadProducts after getProducts has fulfilled
ProductsLoaded(store, resetList, body, fresh) ==
    ClientDispatch(store,
      [type |-> IF resetList THEN SET_PRODUCTS ELSE ADD_PRODUCTS,
       payload |-> [products |-> body.products, totalCount |-> body.pagination.total]],
      fresh)

\* a catch block that stores the message and leaves loading as it is
LoadFailedKeepsLoading(store, message, fresh) ==
    ClientDispatch(store, [type |-> SETUP, payload |-> [error |-> message]], fresh)

\* the catch blocks of the three loaders: SET_ERROR with error.message
LoadFailed(store, message, fresh) ==
    ClientDispatch(store, [type |-> SET_ERROR, payload |-> message], fresh)

\* loadProductDetailForPage after getProduct has fulfilled
ProductLoaded(store, product, fresh) ==
    ClientDispatch(store, [type |-> SET_CURRENT_PRODUCT, payload |-> product], fresh)

\* loadRelatedProducts after getProducts has fulfilled
RelatedLoaded(store, body, excludeProductId, fresh) ==
    ClientDispatch(store,
      [type |-> SET_RELATED_PRODUCTS,
       payload |-> SelectSeqBy(body.products,
                     {q \in Range(body.products) : q.productId # excludeProductId})],
      fresh)

\* the catch block of loadRelatedProducts
RelatedFailed(store, fresh) ==
    ClientDispatch(store, [type |-> SET_RELATED_PRODUCTS, payload |-> <<>>], fresh)

\* bodies GET /api/products answers with
ProductsBodies ==
    {[products |-> <<Items[1]>>, pagination |-> [total |-> 2]],
     [products |-> <<>>, pagination |-> [total |-> 0]]}

\* message of the error a failed fetch or a malformed body raises
FetchError == "Failed to fetch"

\* body GET /api/products/:id answers with for an id that is not in the catalog
MissingBody == [error |-> "Product not found"]

Searches == {<<"a">>}
ProductIds == {<<"p1">>, <<"zz">>}

\* the document is requested from the SSR server
Serve(url, rating) ==
    /\ client.pc = "unloaded"
    /\ RenderCall(1, url, "none", rating)

Deliver ==
    /\ client.pc = "unloaded"
    /\ RenderResume(1)

\* what router.query holds of the query string of the document's URL: search
\* as text and limit as the Number the page renders it by, <<>> and 0 when absent
LocationQuery(query) ==
    [search |-> Nullish(query, <<"search">>, <<>>),
     limit |-> IF Truthy(query, <<"limit">>) THEN parseInt(query[<<"limit">>]) ELSE 0,
     current |-> IF Truthy(query, <<"current">>) THEN parseInt(query[<<"current">>]) ELSE 0]

\* the document has been parsed: its inline script has assigned
\* window.__INITIAL_DATA__, or the document carries no such script; query is
\* the parsed query string of its URL
DocumentLoaded(present, initialData, query) ==
    /\ client.pc = "unloaded"
    /\ client' = Spread(client, [pc |-> "loaded",
                                 query |-> LocationQuery(query),
                                 window |-> [present |-> present, data |-> initialData],
                                 document |-> [present |-> present, data |-> initialData]])
    /\ UNCHANGED nextRef
    /\ UNCHANGED serverVars

LoadServerRendered ==
    /\ req[1].pc = "settled"
    /\ req[1].outcome.status = "fulfilled"
    /\ DocumentLoaded(TRUE, SlotData(req[1].outcome.value), req[1].query)

LoadPlain ==
    /\ req[1].pc = "idle"
    /\ DocumentLoaded(FALSE, EmptyObj, EmptyObj)

\* a main() that restores the server data after the router has started
MainStepsHydrateLast ==
    <<"registerAllEvents", "registerGlobalEvents", "loadCartFromStorage",
      "initRender", "router.start", "hydrateFromServer">>

\* main(): the calls it makes, in order
MainSteps ==
    <<"hydrateFromServer", "registerAllEvents", "registerGlobalEvents",
      "loadCartFromStorage", "initRender", "router.start">>

\* one call of main(): hydrateFromServer() dispatches SETUP with the slot's
\* data and deletes the slot when the slot is set; the other calls touch
\* neither productStore nor the slot
MainStep(c, step, fresh) ==
    IF step = "hydrateFromServer"
    THEN IF c.window.present
         THEN Spread(c, [store |-> hydrateFromServer(c.store, TRUE, c.window.data, fresh),
                         window |-> [present |-> FALSE, data |-> EmptyObj],
                         log |-> c.log \o <<"dispatch SETUP", "delete slot">>])
         ELSE c
    ELSE Spread(c, [log |-> Append(c.log, step)])

RECURSIVE RunMain(_, _, _)
RunMain(c, steps, fresh) ==
    IF steps = <<>> THEN c
    ELSE RunMain(MainStep(c, Head(steps), fresh), Tail(steps), fresh)

\* main() runs to its end; the render that router.start() has queued as a
\* microtask has not run yet
main ==
    /\ client.pc = "loaded"
    /\ LET c == RunMain(client, MainSteps, nextRef)
       IN /\ client' = Spread(c, [pc |-> "running", atStart |-> c.store])
          /\ nextRef' = IF c.store.ref # client.store.ref THEN nextRef + 1 ELSE nextRef
    /\ UNCHANGED serverVars

\* the queued render runs: root.innerHTML = router.target()
FirstRender ==
    /\ client.pc = "running"
    /\ ~client.rendered
    /\ client' = Spread(client, [rendered |-> TRUE, log |-> Append(client.log, "render")])
    /\ UNCHANGED nextRef
    /\ UNCHANGED serverVars

\* a service function is called, by the mount of the rendered page or by an
\* event handler, and runs up to its await or its return
Called(c) ==
    /\ client.pc = "running"
    /\ client.rendered
    /\ client.calls < MaxCalls
    /\ client' = Spread(c, [calls |-> client.calls + 1])
    /\ nextRef' = IF c.store.ref # client.store.ref THEN nextRef + 1 ELSE nextRef
    /\ UNCHANGED serverVars

CallLoadProductsAndCategories == Called(loadProductsAndCategories(client, nextRef))
CallLoadProducts == Called(loadProducts(client, TRUE, nextRef))
CallLoadMoreProducts == Called(loadMoreProducts(client, nextRef))
CallSearchProducts == \E search \in Searches : Called(searchProducts(client, search))
CallLoadProductDetailForPage ==
    \E productId \in ProductIds : Called(loadProductDetailForPage(client, productId, nextRef))

\* the promise a service call returns is fulfilled, or rejected with the
\* error its catch block rethrows
Fulfilled(op) == [op |-> op, status |-> "fulfilled"]
Thrown(op, message) == [op |-> op, status |-> "rejected", reason |-> message]

\* the continuation of task i runs to its next await or to its end; settled
\* is the last settlement of a service call's promise
Resumed(i, store, tasks, settled) ==
    /\ client' = Spread(client, [store |-> store, tasks |-> tasks, settled |-> settled])
    /\ nextRef' = nextRef + 1
    /\ UNCHANGED serverVars

ListingFulfilled(i, body) ==
    /\ i \in DOMAIN client.tasks
    /\ client.tasks[i].op = "loadProductsAndCategories"
    /\ Resumed(i, ListingLoaded(client.store, body, mockGetCategories, nextRef),
               Without(client.tasks, i), Fulfilled(client.tasks[i].op))

ProductsFulfilled(i, body) ==
    /\ i \in DOMAIN client.tasks
    /\ client.tasks[i].op = "loadProducts"
    /\ Resumed(i, ProductsLoaded(client.store, client.tasks[i].resetList, body, nextRef),
               Without(client.tasks, i), Fulfilled(client.tasks[i].op))

\* getProduct answers with a product: SET_CURRENT_PRODUCT, then
\* loadRelatedProducts up to its await when the product has a category2
ProductFulfilled(i, rating) ==
    /\ i \in DOMAIN client.tasks
    /\ client.tasks[i].op = "loadProductDetailForPage"
    /\ mockGetProduct(client.tasks[i].productId, rating) # NullObj
    /\ LET product == mockGetProduct(client.tasks[i].productId, rating)
       IN Resumed(i, ProductLoaded(client.store, product, nextRef),
                  IF HasText(product, "category2")
                  THEN [client.tasks EXCEPT ![i] =
                          Task("loadRelatedProducts", TRUE, client.tasks[i].productId)]
                  ELSE Without(client.tasks, i),
                  IF HasText(product, "category2")
                  THEN client.settled
                  ELSE Fulfilled(client.tasks[i].op))

\* getProduct answers with the error body of an unknown id
ProductMissing(i) ==
    /\ i \in DOMAIN client.tasks
    /\ client.tasks[i].op = "loadProductDetailForPage"
    /\ \A rating \in Ratings : mockGetProduct(client.tasks[i].productId, rating) = NullObj
    /\ Resumed(i, ProductLoaded(client.store, MissingBody, nextRef),
               Without(client.tasks, i), Fulfilled(client.tasks[i].op))

RelatedFulfilled(i, body) ==
    /\ i \in DOMAIN client.tasks
    /\ client.tasks[i].op = "loadRelatedProducts"
    /\ Resumed(i, RelatedLoaded(client.store, body, client.tasks[i].productId, nextRef),
               Without(client.tasks, i), Fulfilled(client.tasks[i].op))

\* the awaited request of task i fails: loadRelatedProducts swallows the
\* error, the other loaders store its message and rethrow it
Rejected(i) ==
    /\ i \in DOMAIN client.tasks
    /\ Resumed(i, IF client.tasks[i].op = "loadRelatedProducts"
                  THEN RelatedFailed(client.store, nextRef)
                  ELSE LoadFailed(client.store, FetchError, nextRef),
               Without(client.tasks, i),
               IF client.tasks[i].op = "loadRelatedProducts"
               THEN Fulfilled(client.tasks[i].op)
               ELSE Thrown(client.tasks[i].op, FetchError))

NextClient ==
    \/ \E url \in RenderUrls, rating \in Ratings : Serve(url, rating)
    \/ Deliver
    \/ LoadServerRendered
    \/ LoadPlain
    \/ main
    \/ FirstRender
    \/ CallLoadProductsAndCategories
    \/ CallLoadProducts
    \/ CallLoadMoreProducts
    \/ CallSearchProducts
    \/ CallLoadProductDetailForPage
    \/ \E i \in 1..MaxCalls, body \in ProductsBodies : ListingFulfilled(i, body)
    \/ \E i \in 1..MaxCalls, body \in ProductsBodies : ProductsFulfilled(i, body)
    \/ \E i \in 1..MaxCalls, rating \in Ratings : ProductFulfilled(i, rating)
    \/ \E i \in 1..MaxCalls : ProductMissing(i)
    \/ \E i \in 1..MaxCalls, body \in ProductsBodies : RelatedFulfilled(i, body)
    \/ \E i \in 1..MaxCalls : Rejected(i)

SpecClient == Init /\ [][NextClient]_vars

-----------------------------------------------------------------------------
(* Properties of the store snapshots *)

\* the snapshots in existence: the own store of each render call after its
\* SETUP, and productStore in the browser once main() has run
Snapshots ==
    {req[r].ownState.val : r \in {q \in Requests : Settled(q) /\ req[q].rendered}}
        \cup (IF client.pc = "running" THEN {client.store.val} ELSE {})

StatusValues == {"idle", "pending", "done"}

\* the initial snapshot overlaid with the prefetched data of a product that
\* does not exist
NotFoundSeed == Spread(initialProductState.val, [error |-> NotFoundMessage])

\* C8 as stated: in every snapshot of an SSR store after seeding and of the
\* client store after hydration and any service calls, status is one of idle,
\* pending, done, and a non-null error comes with loading = false
C8_ErrorImpliesNotLoading ==
    \A s \in Snapshots :
        /\ s.status \in StatusValues
        /\ s.error # Null => s.loading = FALSE

\* C8: in every such snapshot status is one of idle, pending, done, and a
\* non-null error comes with loading = false unless the snapshot is the
\* initial snapshot seeded or hydrated with the {error} data of a missing
\* product, which keeps the initial loading = true
C8_ErrorImpliesNotLoadingUnlessNotFoundSeed ==
    \A s \in Snapshots :
        /\ s.status \in StatusValues
        /\ s.error # Null => (s.loading = FALSE \/ s = NotFoundSeed)

\* the browser was hydrated with the data of a missing product, a later
\* service call has failed and left its error with loading = false
C8_Witness ==
    /\ client.pc = "running"
    /\ Settled(1) /\ req[1].rendered
    /\ req[1].ownState.val = NotFoundSeed
    /\ client.store.val.error = FetchError
    /\ client.store.val.loading = FALSE
    /\ client.store.val.status = "done"

-----------------------------------------------------------------------------
(* render of a detail URL *)

DetailPath == <<"/", "product", "/", ":", "id", "/">>

\* call r is for a detail URL and no exception is injected into it
DetailCall(r) ==
    /\ req[r].pc # "idle"
    /\ req[r].fault = "none"
    /\ req[r].matchedRoute # NullObj
    /\ req[r].matchedRoute.path = DetailPath

\* the id of a detail call names no product of the catalog
MissingProduct(r) ==
    \A rating \in Ratings : mockGetProduct(req[r].matchedRoute.params[<<"id">>], rating) = NullObj

\* the error view of ProductDetailPage for the not-found message
NotFoundView == [page |-> "ProductDetailPage", view |-> "error", error |-> NotFoundMessage]

\* C11: render of a detail URL whose id matches no product does not throw; it
\* returns initialData equal to exactly {error: not-found message} and the
\* markup of the product not-found view
C11_MissingProductRendersNotFoundView ==
    \A r \in Requests :
        (Settled(r) /\ DetailCall(r) /\ MissingProduct(r)) =>
            /\ req[r].outcome.status = "fulfilled"
            /\ req[r].outcome.value.initialData = [error |-> NotFoundMessage]
            /\ req[r].outcome.value.html = NotFoundView

-----------------------------------------------------------------------------
(* prefetchData on its own, over catalogs of different sizes *)

Digits == <<"0", "1", "2", "3", "4", "5", "6", "7", "8", "9">>

\* two decimal digits of n
TwoDigits(n) == <<Digits[(n \div 10) + 1], Digits[(n % 10) + 1]>>

\* a catalog in which one first-level category holds more products than one
\* page of mockGetProducts; the prices rise in file order
LargeItems ==
    [i \in 1..22 |->
        [productId |-> <<"q">> \o TwoDigits(i), title |-> <<"t">> \o TwoDigits(i),
         brand |-> <<"x">>, category1 |-> <<"c1">>,
         category2 |-> IF i % 2 = 0 THEN <<"c1a">> ELSE <<"c1b">>,
         lprice |-> TwoDigits(i)]]

Catalogs == {Items, LargeItems}

\* a query parameter that is not in the URL
Absent == <<"undefined">>

\* the query object with the given parameters, the absent ones left out
QueryOf(search, category1, category2, sort, limit) ==
    LET Opt(k, v) == IF v = Absent THEN EmptyObj ELSE (k :> v)
    IN Spread(Spread(Spread(Spread(Opt(<<"search">>, search),
                                   Opt(<<"category1">>, category1)),
                            Opt(<<"category2">>, category2)),
                     Opt(<<"sort">>, sort)),
              Opt(<<"limit">>, limit))

SearchInputs == {Absent, <<>>, <<"a">>}
Category1Inputs == {Absent, <<"c1">>}
Category2Inputs == {Absent, <<"c1a">>}
SortInputs == {Absent, <<>>, <<"price_desc">>, <<"name_asc">>}
LimitInputs == {Absent, <<>>, <<"2">>}
DetailIds == {<<"p1">>, <<"p3">>, <<"zz">>, <<"q", "0", "1">>, <<"q", "2", "2">>}

\* prefetchData(path, params, query) is called
Prefetch(items, path, params, query, rating) ==
    /\ ~prefetched.called
    /\ prefetched' = [called |-> TRUE, items |-> items, path |-> path, params |-> params,
                      query |-> query,
                      result |-> prefetchDataIn(items, path, params, query, rating)]
    /\ UNCHANGED <<routes, regLog, lastUrl, matchResult, stores, subs, notified,
                   lastAction, nextRef, ssrStore, req, client, composed, ssg, http, queried, view, dev, feed, nav, related>>

PrefetchListing ==
    \E items \in Catalogs, search \in SearchInputs, category1 \in Category1Inputs,
       category2 \in Category2Inputs, sort \in SortInputs, limit \in LimitInputs,
       rating \in Ratings :
        Prefetch(items, <<"/">>, EmptyObj,
                 QueryOf(search, category1, category2, sort, limit), rating)

PrefetchDetail ==
    \E items \in Catalogs, id \in DetailIds, rating \in Ratings :
        Prefetch(items, DetailPath, <<"id">> :> id, EmptyObj, rating)

PrefetchOther ==
    \E items \in Catalogs, rating \in Ratings :
        Prefetch(items, <<"/", "cart">>, EmptyObj, EmptyObj, rating)

NextPrefetch == PrefetchListing \/ PrefetchDetail \/ PrefetchOther

SpecPrefetch == Init /\ [][NextPrefetch]_vars

\* the latest call was for a detail route and found its product
DetailFound ==
    /\ prefetched.called
    /\ prefetched.path = DetailPath
    /\ "currentProduct" \in DOMAIN prefetched.result

\* the other products of the catalog that share the first-level category of
\* the product looked up
SameCategoryOthers ==
    {i \in DOMAIN prefetched.items :
        /\ prefetched.items[i].category1 = prefetched.result.currentProduct.category1
        /\ prefetched.items[i].productId # prefetched.params[<<"id">>]}

\* C12: for a detail route whose product exists, relatedProducts is the set
\* of all catalog products with the same first-level category except the
\* product itself, with no cap on their number
C12_RelatedProductsAreWholeCategory ==
    DetailFound =>
        /\ {q.productId : q \in Range(prefetched.result.relatedProducts)}
              = {prefetched.items[i].productId : i \in SameCategoryOthers}
        /\ Len(prefetched.result.relatedProducts) = Cardinality(SameCategoryOthers)

\* C13: when the related-products lookup of a detail call whose product
\* exists fails, render still resolves, with currentProduct set and
\* relatedProducts equal to the empty list
C13_RelatedFailureIsCaught ==
    \A r \in Requests :
        (Settled(r) /\ req[r].fault = "related") =>
            /\ req[r].outcome.status = "fulfilled"
            /\ "currentProduct" \in DOMAIN req[r].outcome.value.initialData
            /\ req[r].outcome.value.initialData.currentProduct.productId
                  = req[r].matchedRoute.params[<<"id">>]
            /\ req[r].outcome.value.initialData.relatedProducts = <<>>

\* the id in a URL of the shape /product/<id>/, <<>> for any other URL
UrlProductId(url) ==
    LET path == BeforeQuery(url)
    IN IF Len(path) = 5 /\ SubSeq(path, 1, 3) = <<"/", "product", "/">> /\ path[5] = "/"
          /\ path[4] \notin {"/", "?"}
       THEN <<path[4]>> ELSE <<>>

\* the catalog entries with the given id
CatalogEntries(id) == {i \in DOMAIN Items : Items[i].productId = id}

\* the sequence part occurs in the sequence whole
Contains(whole, part) ==
    \E i \in 1..(Len(whole) - Len(part) + 1) : SubSeq(whole, i, i + Len(part) - 1) = part

DefaultHead == <<"<title>", "shop-home", "</title>">>

\* call r has returned without an injected exception
Returned(r) == Settled(r) /\ req[r].fault = "none"

\* C14: for a detail URL whose product exists render returns that product as
\* currentProduct, relatedProducts without an entry of that id and a head
\* whose title contains the product's title; for every other URL the head is
\* the default title
C14_DetailDataAndTitle ==
    \A r \in Requests :
        Returned(r) =>
            LET id == UrlProductId(req[r].url)
                value == req[r].outcome.value
            IN /\ req[r].outcome.status = "fulfilled"
               /\ IF CatalogEntries(id) # {}
                  THEN /\ value.initialData.currentProduct.productId = id
                       /\ \A q \in Range(value.initialData.relatedProducts) : q.productId # id
                       /\ \E i \in CatalogEntries(id) : Contains(value.head, Items[i].title)
                       /\ value.head # DefaultHead
                  ELSE value.head = DefaultHead

\* one call has returned the data of an existing product with related
\* products, another the default title
C14_Witness ==
    \E r, o \in Requests :
        /\ Returned(r) /\ Returned(o)
        /\ CatalogEntries(UrlProductId(req[r].url)) # {}
        /\ req[r].outcome.value.initialData.relatedProducts # <<>>
        /\ CatalogEntries(UrlProductId(req[o].url)) = {}
        /\ req[o].outcome.value.head = DefaultHead

\* C15: for a URL that matches no registered route render makes no prefetch,
\* uses the empty object as initialData, seeds its store with it and takes
\* the markup from NotFoundPage
C15_UnmatchedUrlRendersNotFoundPage ==
    \A r \in Requests :
        (Returned(r) /\ match(createServerRouter, req[r].url) = NullObj) =>
            /\ "prefetch" \notin Range(req[r].stages)
            /\ req[r].outcome.status = "fulfilled"
            /\ DOMAIN req[r].outcome.value.initialData = {}
            /\ "setup" \in Range(req[r].stages)
            /\ req[r].ownState.ref # req[r].seed.ref
            /\ req[r].ownState.val = initialProductState.val
            /\ req[r].outcome.value.html = NotFoundPage
            /\ req[r].readFrom = 0

\* an unmatched URL was rendered while another call was suspended
C15_Witness ==
    \E r \in Requests :
        /\ Returned(r)
        /\ match(createServerRouter, req[r].url) = NullObj
        /\ req[r].outcome.value.html = NotFoundPage
        /\ \E o \in Requests \ {r} : req[o].pc = "await"

\* the latest call was for the root listing route
ListingCall == prefetched.called /\ prefetched.path = <<"/">>

\* the value of a query parameter, or the default when the parameter is
\* absent or empty
Given(query, k, default) ==
    IF k \in DOMAIN query /\ query[k] # <<>> THEN query[k] ELSE default

\* the options of the product query the echoed form fields describe
EchoedOptions(result) ==
    [search |-> result.searchQuery, category1 |-> result.category1,
     category2 |-> result.category2, sort |-> result.sort, limit |-> result.limit]

ListingFields ==
    {"products", "categories", "totalCount", "loading", "searchQuery", "category1",
     "category2", "sort", "limit"}

\* C16: for the root listing route and every query, prefetch returns
\* products, categories, totalCount (the number of products matching the
\* filters), loading = false and the echoed form fields; the echoed fields
\* are the query's values with the defaults (empty search and categories,
\* sort price_asc, limit 20) and are the filter values of the product query
\* that produced products
C16_ListingEchoesAppliedFilters ==
    ListingCall =>
        LET result == prefetched.result
            query == prefetched.query
            applied == mockGetProductsIn(prefetched.items, EchoedOptions(result))
        IN /\ DOMAIN result = ListingFields
           /\ result.loading = FALSE
           /\ result.categories = mockGetCategoriesIn(prefetched.items)
           /\ result.searchQuery = Given(query, <<"search">>, <<>>)
           /\ result.category1 = Given(query, <<"category1">>, <<>>)
           /\ result.category2 = Given(query, <<"category2">>, <<>>)
           /\ result.sort = Given(query, <<"sort">>, <<"price_asc">>)
           /\ result.limit = IF Given(query, <<"limit">>, <<>>) # <<>>
                             THEN parseInt(query[<<"limit">>]) ELSE 20
           /\ result.totalCount = applied.pagination.total
           /\ result.products = applied.products

-----------------------------------------------------------------------------
(* Effects of the reducer's actions *)

\* the snapshot now differs from the snapshot s at most in the named fields
OnlyChanged(s, now, fields) ==
    /\ DOMAIN now = DOMAIN s \cup fields
    /\ \A k \in DOMAIN s \ fields : now[k] = s[k]

\* C17: SET_CATEGORIES, SET_PRODUCTS and SET_CURRENT_PRODUCT replace their
\* target fields, ADD_PRODUCTS appends the payload products after the
\* existing list in order and replaces totalCount, each of the four sets
\* loading = false, error = null, status = done; SET_ERROR sets error to the
\* payload, loading = false, status = done; every field not named is left
\* unchanged
C17_DataActionsHaveTabulatedEffect ==
    lastAction # <<>> =>
        LET s == Latest.before.val
            p == Latest.action.payload
            type == Latest.action.type
            now == stores[SingletonId].val
            Done == now.loading = FALSE /\ now.error = Null /\ now.status = "done"
        IN /\ type = SET_CATEGORIES =>
                /\ now.categories = p /\ Done
                /\ OnlyChanged(s, now, {"categories", "loading", "error", "status"})
           /\ type = SET_PRODUCTS =>
                /\ now.products = p.products /\ now.totalCount = p.totalCount /\ Done
                /\ OnlyChanged(s, now, {"products", "totalCount", "loading", "error", "status"})
           /\ type = ADD_PRODUCTS =>
                /\ Len(now.products) = Len(s.products) + Len(p.products)
                /\ \A i \in DOMAIN s.products : now.products[i] = s.products[i]
                /\ \A i \in DOMAIN p.products : now.products[Len(s.products) + i] = p.products[i]
                /\ now.totalCount = p.totalCount /\ Done
                /\ OnlyChanged(s, now, {"products", "totalCount", "loading", "error", "status"})
           /\ type = SET_CURRENT_PRODUCT =>
                /\ now.currentProduct = p /\ Done
                /\ OnlyChanged(s, now, {"currentProduct", "loading", "error", "status"})
           /\ type = SET_ERROR =>
                /\ now.error = p /\ now.loading = FALSE /\ now.status = "done"
                /\ OnlyChanged(s, now, {"error", "loading", "status"})

\* ADD_PRODUCTS of a page of two products on a list that holds another
\* product
C17_Witness ==
    /\ Len(lastAction) = 2
    /\ Latest.action.type = ADD_PRODUCTS
    /\ Latest.before.val.products = <<Items[2]>>
    /\ stores[SingletonId].val.products = <<Items[2], Items[1], Items[3]>>
    /\ stores[SingletonId].val.totalCount = 2

\* C18: SET_STATUS changes only status and SET_LOADING only loading;
\* SET_RELATED_PRODUCTS changes only relatedProducts and status (to done) and
\* leaves loading and error as they were; all other fields are unchanged and
\* the result is a new snapshot object, the previous one being left as it was
C18_FrameOfStatusLoadingRelated ==
    lastAction # <<>> =>
        LET s == Latest.before.val
            p == Latest.action.payload
            type == Latest.action.type
            now == stores[SingletonId].val
        IN /\ type = SET_STATUS =>
                now.status = p /\ OnlyChanged(s, now, {"status"})
           /\ type = SET_LOADING =>
                now.loading = p /\ OnlyChanged(s, now, {"loading"})
           /\ type = SET_RELATED_PRODUCTS =>
                /\ now.relatedProducts = p /\ now.status = "done"
                /\ now.loading = s.loading /\ now.error = s.error
                /\ OnlyChanged(s, now, {"relatedProducts", "status"})
           /\ type \in {SET_STATUS, SET_LOADING, SET_RELATED_PRODUCTS} =>
                /\ stores[SingletonId].ref = Latest.fresh
                /\ stores[SingletonId].ref # Latest.before.ref

\* SET_RELATED_PRODUCTS on a snapshot that is loading and holds an error
C18_Witness ==
    /\ lastAction # <<>>
    /\ Latest.action.type = SET_RELATED_PRODUCTS
    /\ Latest.before.val.loading = TRUE
    /\ Latest.before.val.error # Null
    /\ stores[SingletonId].val.loading = TRUE
    /\ stores[SingletonId].val.relatedProducts # <<>>

-----------------------------------------------------------------------------
(* Client start-up *)

\* how often e occurs in seq, and where it occurs first
Count(seq, e) == Cardinality({i \in DOMAIN seq : seq[i] = e})
FirstIndex(seq, e) == CHOOSE i \in DOMAIN seq : seq[i] = e /\ \A k \in 1..(i - 1) : seq[k] # e

\* C19: at client start-up, a window.__INITIAL_DATA__ that is present is
\* merged into productStore by exactly one SETUP dispatch, before the router
\* starts and before the first page render, and is then deleted from window;
\* when the slot is absent nothing is dispatched and the store keeps its
\* initial state
C19_HydratesOnceBeforeRouterStart ==
    client.pc = "running" =>
        /\ ~client.window.present
        /\ Count(client.log, "router.start") = 1
        /\ IF client.document.present
           THEN /\ Count(client.log, "dispatch SETUP") = 1
                /\ Count(client.log, "delete slot") = 1
                /\ FirstIndex(client.log, "dispatch SETUP") < FirstIndex(client.log, "delete slot")
                /\ FirstIndex(client.log, "dispatch SETUP") < FirstIndex(client.log, "router.start")
                /\ client.rendered =>
                      FirstIndex(client.log, "dispatch SETUP") < FirstIndex(client.log, "render")
                /\ client.atStart.ref # InitialRef
                /\ client.atStart.val = Spread(initialProductState.val, client.document.data)
           ELSE /\ Count(client.log, "dispatch SETUP") = 0
                /\ client.atStart = initialProductState

\* the page of a served listing has been hydrated and rendered
C19_Witness ==
    /\ client.pc = "running"
    /\ client.rendered
    /\ client.document.present
    /\ "products" \in DOMAIN client.document.data
    /\ client.atStart.val.products # <<>>
    /\ client.atStart.val.loading = FALSE

\* ---------------------------------------------------------------------------
\* injectSSRResult on its own (server.js): the document sent to the browser.
\* A text is a sequence of symbols; "$", "&", "'" and Grave are one character
\* each, every other symbol is a run of characters free of "$".
\* ---------------------------------------------------------------------------

\* the grave accent character (U+0060)
Grave == "grave"

HeadPlaceholder == <<"<!--app-head-->">>
BodyPlaceholder == <<"<!--app-html-->">>
HeadClose == <<"</head>">>

StartsAt(str, pattern, i) ==
    /\ i + Len(pattern) - 1 <= Len(str)
    /\ \A k \in 1..Len(pattern) : str[i + k - 1] = pattern[k]

\* String.prototype.indexOf: position of the first occurrence, 0 when none
RECURSIVE IndexOfText(_, _, _)
IndexOfText(str, pattern, i) ==
    IF i + Len(pattern) - 1 > Len(str) THEN 0
    ELSE IF StartsAt(str, pattern, i) THEN i
    ELSE IndexOfText(str, pattern, i + 1)

\* GetSubstitution of ECMAScript for a string pattern (no captures): "$$" is a
\* dollar, "$&" the matched text, "$" with Grave the text before the match,
\* "$'" the text after it; every other symbol stands for itself
RECURSIVE GetSubstitution(_, _, _, _)
GetSubstitution(matched, before, after, replacement) ==
    IF replacement = <<>> THEN <<>>
    ELSE IF replacement[1] = "$" /\ Len(replacement) >= 2
            /\ replacement[2] \in {"$", "&", Grave, "'"}
    THEN LET rest == SubSeq(replacement, 3, Len(replacement))
             out == CASE replacement[2] = "$" -> <<"$">>
                      [] replacement[2] = "&" -> matched
                      [] replacement[2] = Grave -> before
                      [] replacement[2] = "'" -> after
         IN out \o GetSubstitution(matched, before, after, rest)
    ELSE <<replacement[1]>>
         \o GetSubstitution(matched, before, after, Tail(replacement))

\* String.prototype.replace(pattern, replacement) with a string pattern: the
\* first occurrence only, the replacement expanded by GetSubstitution
replace(str, pattern, replacement) ==
    LET i == IndexOfText(str, pattern, 1)
    IN IF i = 0 THEN str
       ELSE LET before == SubSeq(str, 1, i - 1)
                after == SubSeq(str, i + Len(pattern), Len(str))
            IN before
               \o GetSubstitution(pattern, before, after, replacement)
               \o after

\* JSON.stringify of a string: quotes and backslashes are escaped
RECURSIVE QuoteJSONString(_)
QuoteJSONString(text) ==
    IF text = <<>> THEN <<>>
    ELSE (IF text[1] \in {"\"", "\\"} THEN <<"\\", text[1]>> ELSE <<text[1]>>)
         \o QuoteJSONString(Tail(text))

\* JSON.stringify of a plain object whose values are strings, given as the
\* sequence of its entries in insertion order
RECURSIVE StringifyEntries(_)
StringifyEntries(entries) ==
    IF entries = <<>> THEN <<>>
    ELSE <<"\"", entries[1].key, "\"", ":", "\"">>
         \o QuoteJSONString(entries[1].value) \o <<"\"">>
         \o (IF Len(entries) > 1 THEN <<",">> ELSE <<>>)
         \o StringifyEntries(Tail(entries))

JSONStringify(entries) == <<"{">> \o StringifyEntries(entries) \o <<"}">>

\* rendered.head ?? "" and rendered.html ?? ""
OrEmptyText(text) == IF text = Absent THEN <<>> ELSE text

\* rendered.initialData ?? {}
OrEmptyData(data) == IF data.present THEN data.entries ELSE <<>>

initialDataScript(rendered) ==
    <<"<script>", "window.__INITIAL_DATA__ = ">>
    \o JSONStringify(OrEmptyData(rendered.initialData))
    \o <<"</script>">>

injectSSRResult(template, rendered) ==
    replace(replace(replace(template,
                            HeadPlaceholder, OrEmptyText(rendered.head)),
                    BodyPlaceholder, OrEmptyText(rendered.html)),
            HeadClose, initialDataScript(rendered) \o HeadClose)

\* the script of static-site-generate.js: JSON.stringify(rendered.initialData)
\* inside a template literal; JSON.stringify(undefined) is undefined
initialDataScriptStatic(rendered) ==
    <<"<script>", "window.__INITIAL_DATA__ = ">>
    \o (IF rendered.initialData.present
        THEN JSONStringify(rendered.initialData.entries)
        ELSE <<"undefined">>)
    \o <<"</script>">>

\* injectSSRResult(template, rendered) of static-site-generate.js
\* (src/unnamed/part_000:40-47)
injectSSRResultStatic(template, rendered) ==
    replace(replace(replace(template,
                            HeadPlaceholder, OrEmptyText(rendered.head)),
                    BodyPlaceholder, OrEmptyText(rendered.html)),
            HeadClose, initialDataScriptStatic(rendered) \o HeadClose)

\* templates: the shell of index.html, the shell with text around the
\* placeholders, and a shell whose body placeholder precedes the head
Templates ==
    { <<"<head>", "<!--app-head-->", "</head>", "<body>", "<!--app-html-->",
        "</body>">>,
      <<"<html>", "<head>", "<meta>", "<!--app-head-->", "<link>", "</head>",
        "<body>", "<div id=\"root\">", "<!--app-html-->", "</div>", "</body>",
        "</html>">>,
      <<"<!--app-html-->", "<head>", "<!--app-head-->", "</head>">> }

Heads ==
    { Absent,
      <<"<title>", "shop - home", "</title>">>,
      <<"<title>", "A", "$", "&", "B", "</title>">> }

Markups ==
    { Absent,
      <<>>,
      <<"<div>", "A", "</div>">>,
      <<"<div>", "$", "1", "</div>">>,
      <<"<input value=\"", "$", "&", "\">">>,
      <<"<input value=\"", "$", "'", "\">">>,
      <<"<input value=\"", "$", Grave, "\">">>,
      <<"<div>", "$", "$", "</div>">> }

InitialDatas ==
    { [present |-> FALSE, entries |-> <<>>],
      [present |-> TRUE, entries |-> <<>>],
      [present |-> TRUE,
       entries |-> <<[key |-> "error", value |-> <<NotFoundMessage>>]>>],
      [present |-> TRUE,
       entries |-> <<[key |-> "searchQuery", value |-> <<"A", "\"", "B">>],
                     [key |-> "sort", value |-> <<"price_asc">>]>>],
      [present |-> TRUE,
       entries |-> <<[key |-> "searchQuery", value |-> <<"$", "&">>]>>] }

\* one call injectSSRResult(template, rendered)
Compose(template, rendered) ==
    /\ ~composed.called
    /\ composed' = [called |-> TRUE, template |-> template,
                    rendered |-> rendered,
                    output |-> injectSSRResult(template, rendered),
                    static |-> injectSSRResultStatic(template, rendered)]
    /\ UNCHANGED <<routes, regLog, lastUrl, matchResult, stores, subs,
                   notified, lastAction, nextRef, ssrStore, req, client,
                   prefetched, ssg, http, queried, view, dev, feed, nav, related>>

ComposeRendered ==
    \E template \in Templates, head \in Heads, html \in Markups,
       data \in InitialDatas :
        Compose(template, [head |-> head, html |-> html, initialData |-> data])

NextCompose == ComposeRendered

SpecCompose == Init /\ [][NextCompose]_vars

\* the template with each placeholder replaced where the template has it, the
\* replacement texts taken character for character
RECURSIVE Spliced(_, _, _, _)
Spliced(template, head, html, script) ==
    IF template = <<>> THEN <<>>
    ELSE IF StartsAt(template, HeadPlaceholder, 1)
    THEN head \o Spliced(Tail(template), head, html, script)
    ELSE IF StartsAt(template, BodyPlaceholder, 1)
    THEN html \o Spliced(Tail(template), head, html, script)
    ELSE IF StartsAt(template, HeadClose, 1)
    THEN script \o HeadClose \o Spliced(Tail(template), head, html, script)
    ELSE <<template[1]>> \o Spliced(Tail(template), head, html, script)

WellFormed(template) ==
    /\ Count(template, HeadPlaceholder[1]) = 1
    /\ Count(template, BodyPlaceholder[1]) = 1
    /\ Count(template, HeadClose[1]) = 1

\* C20: for every template holding the head placeholder, the body placeholder
\* and a closing head tag, and every render result, the composed document is
\* the template with the head placeholder replaced by the head metadata, the
\* body placeholder by the markup verbatim, and exactly one script assigning
\* JSON.stringify(initialData) to window.__INITIAL_DATA__ right before the
\* template's closing head tag
C20_ComposeSplicesVerbatim ==
    (composed.called /\ WellFormed(composed.template)) =>
        /\ composed.output =
               Spliced(composed.template,
                       OrEmptyText(composed.rendered.head),
                       OrEmptyText(composed.rendered.html),
                       initialDataScript(composed.rendered))
        /\ Count(composed.output, "<script>") = 1

-----------------------------------------------------------------------------
(* Static site generation: src/unnamed/part_000 (static-site-generate.js). *)
(* The generator awaits each render before it starts the next one, so a    *)
(* render call is never overlapped by another one.                         *)

\* Body applied to the value, which is computed once
With(value, Body(_)) == CHOOSE result \in {Body(x) : x \in {value}} : TRUE

\* render(url) of a call that no other call overlaps, over the catalog items:
\* Steps 1-9 on the call's own store, the slot released at the end
renderAlone(items, url, rating, heap, fresh) ==
    With(match(createServerRouter, url), LAMBDA matchedRoute :
      With(IF matchedRoute # NullObj
           THEN prefetchDataIn(items, matchedRoute.path, matchedRoute.params,
                               parseQuery(extractQueryString(url)), rating)
           ELSE EmptyObj,
           LAMBDA initialData :
             LET cs == createSSRStore(heap)
                 handler == IF matchedRoute # NullObj THEN matchedRoute.handler
                            ELSE "NotFoundPage"
                 sr == SeedAndRender(cs.heap, cs.store, cs.slot, handler, initialData, fresh)
             IN [html |-> sr.html,
                 head |-> <<"<title>">> \o generateTitle(matchedRoute, initialData)
                              \o <<"</title>">>,
                 initialData |-> initialData]))

\* the document injectSSRResult builds, kept as the three values spliced into
\* the template
Document(rendered) ==
    [head |-> rendered.head, html |-> rendered.html, data |-> rendered.initialData]

\* a collectPages that leaves out the not-found page
collectPagesWithout404(items) ==
    With(mockGetProductsIn(items, [limit |-> 20]).products, LAMBDA products :
      <<[url |-> <<"/">>, output |-> <<"index.html">>]>>
      \o [i \in DOMAIN products |->
           [url |-> <<"/", "product", "/">> \o products[i].productId \o <<"/">>,
            output |-> <<"product", "/">> \o products[i].productId \o <<"/", "index.html">>]])

\* collectPages(mockGetProducts)
collectPages(items) ==
    With(mockGetProductsIn(items, [limit |-> 20]).products, LAMBDA products :
      <<[url |-> <<"/">>, output |-> <<"index.html">>],
        [url |-> <<"/", "404">>, output |-> <<"404.html">>]>>
      \o [i \in DOMAIN products |->
           [url |-> <<"/", "product", "/">> \o products[i].productId \o <<"/">>,
            output |-> <<"product", "/">> \o products[i].productId \o <<"/", "index.html">>]])

\* the catalogs the generator is run over: fewer than, exactly one more than
\* and two more than the 20 products it generates pages for
StaticCatalogs == {Items, SubSeq(LargeItems, 1, 21), LargeItems}

\* generateStaticSite(), Steps 1-3: template and SSR module loaded, page list
\* collected
GenerateStaticSite(items) ==
    /\ ssg.pc = "idle"
    /\ \E pages \in {collectPages(items)} :
          ssg' = [pc |-> "loop", items |-> items, pages |-> pages, i |-> 1,
                  log |-> <<>>, written |-> <<>>]
    /\ UNCHANGED <<routes, regLog, lastUrl, matchResult, stores, subs, notified,
                   lastAction, nextRef, ssrStore, req, client, prefetched, composed, http, queried, view, dev, feed, nav, related>>

\* Step 4, head of the loop: render(page.url) is called and the generator
\* waits for it
StaticRender ==
    /\ ssg.pc = "loop"
    /\ ssg' = Spread(ssg, [pc |-> "await",
                           log |-> Append(ssg.log, [kind |-> "render",
                                                    page |-> ssg.pages[ssg.i].url])])
    /\ UNCHANGED <<routes, regLog, lastUrl, matchResult, stores, subs, notified,
                   lastAction, nextRef, ssrStore, req, client, prefetched, composed, http, queried, view, dev, feed, nav, related>>

\* Step 4, rest of the loop body: the render has settled, the document is
\* composed and written; the store of the call is unreachable afterwards
StaticWrite(rating) ==
    /\ ssg.pc = "await"
    /\ \E page \in {ssg.pages[ssg.i]} :
       \E rendered \in {renderAlone(ssg.items, page.url, rating, stores, nextRef)} :
          ssg' = Spread(ssg,
                   [pc |-> IF ssg.i = Len(ssg.pages) THEN "done" ELSE "loop",
                    i |-> ssg.i + 1,
                    log |-> ssg.log \o <<[kind |-> "settled", page |-> page.url],
                                         [kind |-> "write", page |-> page.output]>>,
                    written |-> Append(ssg.written, page.output),
                    last |-> [url |-> page.url, output |-> page.output,
                              rendered |-> rendered,
                              content |-> Document(rendered)]])
    /\ UNCHANGED <<routes, regLog, lastUrl, matchResult, stores, subs, notified,
                   lastAction, nextRef, ssrStore, req, client, prefetched, composed, http, queried, view, dev, feed, nav, related>>

NextStatic ==
    \/ \E items \in StaticCatalogs : GenerateStaticSite(items)
    \/ StaticRender
    \/ \E rating \in Ratings : StaticWrite(rating)

SpecStatic == Init /\ [][NextStatic]_vars

\* the URLs static generation is meant to cover
StaticUrls(items) ==
    {<<"/">>, <<"/", "404">>}
    \cup {<<"/", "product", "/">> \o p.productId \o <<"/">> :
            p \in Range(slice(mockGetProductsIn(items, EmptyObj).products, 0, 20))}

\* the file a URL is meant to be written to
OutputOf(url) ==
    IF url = <<"/">> THEN <<"index.html">>
    ELSE IF url = <<"/", "404">> THEN <<"404.html">>
    ELSE Tail(url) \o <<"index.html">>

\* the k-th entry of the log of a run that handles one page at a time
SequentialEntry(k) ==
    LET page == ssg.pages[((k - 1) \div 3) + 1]
    IN CASE k % 3 = 1 -> [kind |-> "render", page |-> page.url]
         [] k % 3 = 2 -> [kind |-> "settled", page |-> page.url]
         [] OTHER -> [kind |-> "write", page |-> page.output]

-----------------------------------------------------------------------------
(* The Express handler: src/packages/vanilla/server.js:13-30, 87-112 *)

\* process.env.BASE || (prod ? "/front_7th_chapter4-1/vanilla/" : "/")
ProdBase == <<"/", "front_7th_chapter4-1", "/", "vanilla", "/">>
DevBase == <<"/">>

\* normalizeUrl(originalUrl) under the configured base
normalizeUrl(base, originalUrl) ==
    LET url == replace(originalUrl, base, <<>>)
    IN IF url = <<>> \/ url[1] # "/" THEN <<"/">> \o url ELSE url

\* where an exception is injected into a request: in the module loading of
\* the development server, or in render (see Faults)
HandlerFaults == {"none", "load", "prefetch", "related", "page"}

\* the promise render(url) returns to the handler for a call that no other
\* call overlaps
RenderPromise(url, rating, fault) ==
    With(match(createServerRouter, url), LAMBDA matchedRoute :
      With(IF matchedRoute # NullObj
           THEN PrefetchPromise(matchedRoute.path, matchedRoute.params,
                                parseQuery(extractQueryString(url)), rating, fault)
           ELSE [status |-> "fulfilled", value |-> EmptyObj],
           LAMBDA promise :
             IF promise.status = "rejected"
             THEN [status |-> "rejected", reason |-> [stack |-> promise.reason]]
             ELSE IF fault = "page"
             THEN [status |-> "rejected", reason |-> [stack |-> "page"]]
             ELSE [status |-> "fulfilled",
                   value |-> renderAlone(Items, url, rating, stores, nextRef)]))

\* a handler whose catch block logs the error and sends nothing
HandlerResponsesLogOnly(outcome) ==
    IF outcome.status = "fulfilled"
    THEN <<[status |-> 200, contentType |-> "text/html", body |-> Document(outcome.value)]>>
    ELSE <<>>

\* what the handler sends once the awaited step has settled: the composed
\* document, or from the catch block the stack of the error
HandlerResponses(outcome) ==
    IF outcome.status = "fulfilled"
    THEN <<[status |-> 200, contentType |-> "text/html", body |-> Document(outcome.value)]>>
    ELSE <<[status |-> 500, contentType |-> "none", body |-> outcome.reason.stack]>>

\* request URLs: with and without the production base, the base alone, the
\* base without its last slash, the base inside the path and inside the
\* query, a path that starts with two slashes, and paths of each route
OriginalUrls ==
    {<<"/">>,
     <<"/", "/", "404">>,
     <<"/", "?", "search", "=", "a">>,
     <<"/", "product", "/", "p1", "/">>,
     <<"/", "product", "/", "zz", "/">>,
     <<"/", "404">>,
     ProdBase,
     <<"/", "front_7th_chapter4-1", "/", "vanilla">>,
     ProdBase \o <<"product", "/", "p1", "/">>,
     ProdBase \o <<"?", "search", "=", "a">>,
     ProdBase \o <<"/", "404">>,
     <<"/", "product">> \o ProdBase \o <<"p1", "/">>,
     <<"/", "?", "next", "=">> \o ProdBase}

\* the handler is entered: the URL is normalized and the handler runs up to
\* its first await (the module loading in development, render in production)
HandleRequest(prod, base, originalUrl, fault) ==
    /\ http.pc = "idle"
    /\ fault = "load" => ~prod
    /\ \E url \in {normalizeUrl(base, originalUrl)} :
          /\ fault \in {"prefetch", "related"} =>
                 \E rating \in Ratings : RenderPromise(url, rating, fault).status = "rejected"
          /\ http' = [pc |-> "await", prod |-> prod, base |-> base,
                      originalUrl |-> originalUrl, url |-> url, fault |-> fault,
                      responses |-> <<>>]
    /\ UNCHANGED <<routes, regLog, lastUrl, matchResult, stores, subs, notified,
                   lastAction, nextRef, ssrStore, req, client, prefetched, composed, ssg, queried, view, dev, feed, nav, related>>

\* the awaited steps have settled and the handler runs to its end
HandlerResume(rating) ==
    /\ http.pc = "await"
    /\ \E outcome \in {IF http.fault = "load"
                         THEN [status |-> "rejected", reason |-> [stack |-> "load"]]
                         ELSE RenderPromise(http.url, rating, http.fault)} :
          http' = Spread(http, [pc |-> "done", rating |-> rating, outcome |-> outcome,
                                responses |-> http.responses \o HandlerResponses(outcome)])
    /\ UNCHANGED <<routes, regLog, lastUrl, matchResult, stores, subs, notified,
                   lastAction, nextRef, ssrStore, req, client, prefetched, composed, ssg, queried, view, dev, feed, nav, related>>

NextServer ==
    \/ \E prod \in BOOLEAN, base \in {ProdBase, DevBase}, originalUrl \in OriginalUrls,
          fault \in HandlerFaults :
          HandleRequest(prod, base, originalUrl, fault)
    \/ \E rating \in Ratings : HandlerResume(rating)

SpecServer == Init /\ [][NextServer]_vars

\* C22: the handler sends exactly one response per request: 200 text/html
\* with the composed document when render and composition succeed, 500 with
\* the error's stack when render or any other step of the handler throws
C22_ExactlyOneResponse ==
    /\ http.pc = "await" => http.responses = <<>>
    /\ http.pc = "done" =>
          /\ Len(http.responses) = 1
          /\ http.fault = "none" =>
                /\ http.responses[1].status = 200
                /\ http.responses[1].contentType = "text/html"
                /\ http.responses[1].body =
                       Document(renderAlone(Items, http.url, http.rating, stores, nextRef))
          /\ http.fault # "none" =>
                /\ http.responses[1].status = 500
                /\ http.responses[1].body = http.fault

C22_Witness ==
    /\ http.pc = "done"
    /\ http.fault = "related"
    /\ http.responses[1].status = 500

\* a string starts with a prefix
StartsWith(str, prefix) ==
    Len(prefix) <= Len(str) /\ SubSeq(str, 1, Len(prefix)) = prefix

\* C23: normalizeUrl returns a string that starts with '/', namely the
\* original URL with the base prefix removed: base + rest maps to '/' + rest,
\* and a URL that does not start with the base is returned unchanged apart
\* from the guaranteed leading '/'
C23_NormalizeStripsBasePrefix ==
    http.pc # "idle" =>
        /\ StartsWith(http.url, <<"/">>)
        /\ StartsWith(http.originalUrl, http.base) =>
              http.url = <<"/">> \o SubSeq(http.originalUrl, Len(http.base) + 1,
                                           Len(http.originalUrl))
        /\ ~StartsWith(http.originalUrl, http.base) =>
              http.url = IF StartsWith(http.originalUrl, <<"/">>)
                         THEN http.originalUrl
                         ELSE <<"/">> \o http.originalUrl

-----------------------------------------------------------------------------
(* mockGetProducts on its own: src/packages/vanilla/src/mocks/mockApi.js *)

\* an option that is left out of the options object, or given with a value
NotGiven == [given |-> FALSE]
Given1(v) == [given |-> TRUE, value |-> v]

\* the options object with the given options, the others left out
OptionsOf(page, limit, search, category1, category2, sort) ==
    LET Opt(k, o) == IF o.given THEN (k :> o.value) ELSE EmptyObj
    IN Spread(Spread(Spread(Spread(Spread(Opt("page", page), Opt("limit", limit)),
                                   Opt("search", search)),
                            Opt("category1", category1)),
                     Opt("category2", category2)),
              Opt("sort", sort))

PageOptions == {NotGiven, Given1(0), Given1(1), Given1(2), Given1(3)}
LimitOptions == {NotGiven, Given1(1), Given1(2), Given1(3)}
SearchOptions == {NotGiven, Given1(<<>>), Given1(<<"a">>), Given1(<<"B">>), Given1(<<"z">>)}
Category1Options == {NotGiven, Given1(<<>>), Given1(<<"c1">>), Given1(<<"zz">>)}
Category2Options == {NotGiven, Given1(<<"c1a">>)}
SortOptions ==
    {NotGiven, Given1(<<>>), Given1(<<"price_asc">>), Given1(<<"price_desc">>),
     Given1(<<"name_asc">>), Given1(<<"name_desc">>), Given1(<<"newest">>)}

\* one call mockGetProducts(options) over the catalog items
Query(items, options) ==
    /\ ~queried.called
    /\ queried' = [called |-> TRUE, items |-> items, options |-> options,
                   result |-> mockGetProductsIn(items, options)]
    /\ UNCHANGED <<routes, regLog, lastUrl, matchResult, stores, subs, notified,
                   lastAction, nextRef, ssrStore, req, client, prefetched, composed,
                   ssg, http, view, dev, feed, nav, related>>

QueryProducts ==
    \E items \in Catalogs, page \in PageOptions, limit \in LimitOptions,
       search \in SearchOptions, category1 \in Category1Options,
       category2 \in Category2Options, sort \in SortOptions :
        Query(items, OptionsOf(page, limit, search, category1, category2, sort))

NextQuery == QueryProducts

SpecQuery == Init /\ [][NextQuery]_vars

\* the sort key the query is meant to apply: one of the four keys, and
\* price_asc when the key is absent, empty or unknown
SortKeys == {<<"price_asc">>, <<"price_desc">>, <<"name_asc">>, <<"name_desc">>}
MeantSort(options) ==
    IF "sort" \in DOMAIN options /\ options.sort \in SortKeys
    THEN options.sort ELSE <<"price_asc">>

\* a comes no later than b under the sort key
InOrder(key, a, b) ==
    CASE key = <<"price_asc">> -> parseInt(a.lprice) <= parseInt(b.lprice)
      [] key = <<"price_desc">> -> parseInt(a.lprice) >= parseInt(b.lprice)
      [] key = <<"name_asc">> -> localeCompare(a.title, b.title) <= 0
      [] key = <<"name_desc">> -> localeCompare(a.title, b.title) >= 0

\* C24: the product query orders its result by the sort key: price_asc
\* ascending by integer price, price_desc descending, name_asc and name_desc
\* by locale-aware title comparison; ascending by price is the default,
\* applied whenever the sort key is absent, empty or not one of the four keys
C24_ResultOrderedBySortKey ==
    queried.called =>
        LET products == queried.result.products
        IN \A i, j \in DOMAIN products :
              i < j => InOrder(MeantSort(queried.options), products[i], products[j])

\* the item passes all given filters
Passes(item, options) ==
    LET search == Param(options, "search", <<>>)
        category1 == Param(options, "category1", <<>>)
        category2 == Param(options, "category2", <<>>)
    IN /\ search = <<>>
          \/ includes(toLowerCase(item.title), toLowerCase(search))
          \/ includes(toLowerCase(item.brand), toLowerCase(search))
       /\ category1 = <<>> \/ item.category1 = category1
       /\ category2 = <<>> \/ item.category2 = category2

\* the whole filtered, sorted list: the same query with everything on page 1
Unpaged(items, options) ==
    mockGetProductsIn(items, Spread(options, [page |-> 1, limit |-> Len(items) + 1])).products

\* total, totalPages, currentPage and products as the claim states them
PaginationAsStated ==
    LET items == queried.items
        options == queried.options
        page == Param(options, "page", 1)
        limit == Param(options, "limit", 20)
        pagination == queried.result.pagination
        products == queried.result.products
        total == Cardinality({i \in DOMAIN items : Passes(items[i], options)})
        whole == Unpaged(items, options)
        first == (pagination.currentPage - 1) * limit + 1
        last == IF pagination.currentPage * limit < total
                THEN pagination.currentPage * limit ELSE total
    IN /\ pagination.total = total
       /\ pagination.totalPages * limit >= total
       /\ (pagination.totalPages - 1) * limit < total
       /\ pagination.currentPage \in 1..pagination.totalPages
       /\ page \in 1..pagination.totalPages => pagination.currentPage = page
       /\ page < 1 => pagination.currentPage = 1
       /\ page > pagination.totalPages => pagination.currentPage = pagination.totalPages
       /\ products = SubSeq(whole, first, last)
       /\ Len(products) <= limit

\* C25 as stated: total is the number of catalog products passing all given
\* filters, totalPages = ceil(total / limit), currentPage is the requested
\* page clamped into 1..totalPages, and products are the items at positions
\* (currentPage-1)*limit up to currentPage*limit of the filtered, sorted list
C25_PaginationOfFilteredList ==
    queried.called => PaginationAsStated

\* C25, amended: the same when at least one product passes the filters; when
\* none passes, total, totalPages and currentPage are 0 and products is empty
C25_PaginationOfNonEmptyFilteredList ==
    queried.called =>
        IF queried.result.pagination.total > 0
        THEN PaginationAsStated
        ELSE /\ \A i \in DOMAIN queried.items :
                    ~Passes(queried.items[i], queried.options)
             /\ queried.result.pagination.totalPages = 0
             /\ queried.result.pagination.currentPage = 0
             /\ queried.result.products = <<>>

C25_Witness ==
    /\ queried.called
    /\ queried.result.pagination.total = 3
    /\ queried.result.pagination.totalPages = 2
    /\ queried.result.pagination.currentPage = 2
    /\ Len(queried.result.products) = 1
    /\ "search" \in DOMAIN queried.options
    /\ queried.options.search = <<"a">>

-----------------------------------------------------------------------------
(* HomePage in the browser *)

\* router.query in the browser: the entries of the URL's query string
RouterQuery(query) ==
    Spread(IF query.search # <<>> THEN (<<"search">> :> query.search) ELSE EmptyObj,
           IF query.limit # 0 THEN (<<"limit">> :> query.limit) ELSE EmptyObj)

\* C27: in the browser the store's form fields searchQuery, limit, sort,
\* category1 and category2 are undefined, so after hydration and any sequence
\* of client query changes the form values HomePage renders are those of the
\* router's current query, or the defaults '', 20, price_asc, '', ''
C27_FormValuesFollowRouterQuery ==
    client.pc = "running" =>
        LET routerQuery == RouterQuery(client.query)
            page == HomePage(client.store.val, routerQuery)
        IN /\ DOMAIN client.store.val
                 \cap {"searchQuery", "limit", "sort", "category1", "category2"} = {}
           /\ page.searchQuery = Nullish(routerQuery, <<"search">>, <<>>)
           /\ page.limit = Nullish(routerQuery, <<"limit">>, 20)
           /\ page.sort = Nullish(routerQuery, <<"sort">>, <<"price_asc">>)
           /\ page.category1 = Nullish(routerQuery, <<"category1">>, <<>>)
           /\ page.category2 = Nullish(routerQuery, <<"category2">>, <<>>)

-----------------------------------------------------------------------------
(* withLifecycle in the browser: src/unnamed/part_004:317 (A, D, O, k) and *)
(* the lifecycle HomePage registers (HomePage.js:25-39)                    *)

\* the values HomePage's watch reads from router.query; an absent entry is
\* <<>> or 0
Watched(query) ==
    <<query.search, query.limit, query.sort, query.category1, query.category2>>

\* depsChanged(newDeps, oldDeps); deps holds oldDeps when it has been set
depsChanged(newDeps, deps) ==
    IF deps = <<>> THEN FALSE ELSE newDeps # deps[1]

\* onMount of HomePage: loadProductsAndCategories() returns at once when the
\* store holds products and sets router.query = {current: undefined} otherwise
HomePageMount(v) ==
    Spread(v, [query |-> IF v.holdsProducts THEN v.query
                         ELSE Spread(v.query, [current |-> 0]),
               calls |-> Append(v.calls, "loadProductsAndCategories()")])

\* mount(page): O
mount(v) ==
    IF v.mounted THEN v
    ELSE Spread(HomePageMount(v), [mounted |-> TRUE, deps |-> <<>>])

\* unmount(page): k; HomePage registers no onUnmount
unmount(v) == Spread(v, [mounted |-> FALSE])

\* the function withLifecycle returns for HomePage, called by the render
withLifecycle(v) ==
    LET wasNewPage == v.current # "HomePage"
        entered == Spread(v, [current |-> "HomePage", calls |-> <<>>])
    IN IF wasNewPage
       THEN mount(entered)
       ELSE LET newDeps == Watched(v.query)
            IN Spread(entered,
                 [calls |-> IF depsChanged(newDeps, v.deps)
                            THEN <<"loadProducts(true)">> ELSE <<>>,
                  deps |-> <<newDeps>>])

SearchValues == {<<>>, <<"a">>}
LimitValues == {0, 10}
SortValues == {<<>>, <<"price_desc">>}
Category1Values == {<<>>, <<"c1">>}
Category2Values == {<<>>, <<"c1a">>}
PageCounters == {0, 1, 2}

\* the document is loaded at a listing URL; holdsProducts tells whether the
\* store holds products after hydration
OpenPage(holdsProducts, search, sort) ==
    /\ view.pc = "closed"
    /\ view' = [pc |-> "open", holdsProducts |-> holdsProducts,
                query |-> [search |-> search, limit |-> 0, sort |-> sort,
                           category1 |-> <<>>, category2 |-> <<>>, current |-> 0],
                current |-> "none", mounted |-> FALSE, deps |-> <<>>, calls |-> <<>>,
                last |-> [rendered |-> FALSE]]
    /\ UNCHANGED <<routes, regLog, lastUrl, matchResult, stores, subs, notified,
                   lastAction, nextRef, ssrStore, req, client, prefetched, composed,
                   ssg, http, queried, dev, feed, nav, related>>

\* the render callback runs while the router's target is HomePage
RenderHomePage ==
    /\ view.pc = "open"
    /\ LET v == withLifecycle(view)
       IN view' = Spread(v, [last |-> [rendered |-> TRUE,
                                       stayed |-> view.current = "HomePage",
                                       before |-> IF view.current = "HomePage"
                                                  THEN view.last.at
                                                  ELSE Watched(view.query),
                                       at |-> Watched(view.query),
                                       compared |-> view.deps # <<>>,
                                       calls |-> v.calls]])
    /\ UNCHANGED <<routes, regLog, lastUrl, matchResult, stores, subs, notified,
                   lastAction, nextRef, ssrStore, req, client, prefetched, composed,
                   ssg, http, queried, dev, feed, nav, related>>

\* the render callback runs while the router's target is another page
RenderOtherPage ==
    /\ view.pc = "open"
    /\ view.current # "OtherPage"
    /\ view' = Spread(IF view.current = "HomePage" THEN unmount(view) ELSE view,
                      [current |-> "OtherPage", calls |-> <<>>,
                       last |-> [rendered |-> FALSE]])
    /\ UNCHANGED <<routes, regLog, lastUrl, matchResult, stores, subs, notified,
                   lastAction, nextRef, ssrStore, req, client, prefetched, composed,
                   ssg, http, queried, dev, feed, nav, related>>

\* searchProducts, setLimit, setSort, setCategory:
\* router.query = {<name>: value, current: 1}
ChangeQuery(newQuery) ==
    /\ view.pc = "open"
    /\ view.current = "HomePage"
    /\ view' = Spread(view, [query |-> Spread(Spread(view.query, newQuery),
                                              [current |-> 1])])
    /\ UNCHANGED <<routes, regLog, lastUrl, matchResult, stores, subs, notified,
                   lastAction, nextRef, ssrStore, req, client, prefetched, composed,
                   ssg, http, queried, dev, feed, nav, related>>

\* loadMoreProducts: router.query = {current: n}
ChangePage(n) ==
    /\ view.pc = "open"
    /\ view.current = "HomePage"
    /\ view.query.current # n
    /\ view' = Spread(view, [query |-> Spread(view.query, [current |-> n])])
    /\ UNCHANGED <<routes, regLog, lastUrl, matchResult, stores, subs, notified,
                   lastAction, nextRef, ssrStore, req, client, prefetched, composed,
                   ssg, http, queried, dev, feed, nav, related>>

NextPage ==
    \/ \E holdsProducts \in BOOLEAN, search \in SearchValues, sort \in SortValues :
          OpenPage(holdsProducts, search, sort)
    \/ RenderHomePage
    \/ RenderOtherPage
    \/ \E search \in SearchValues : ChangeQuery([search |-> search])
    \/ \E limit \in LimitValues : ChangeQuery([limit |-> limit])
    \/ \E sort \in SortValues : ChangeQuery([sort |-> sort])
    \/ \E category1 \in Category1Values, category2 \in Category2Values :
          ChangeQuery([category1 |-> category1, category2 |-> category2])
    \/ \E n \in PageCounters : ChangePage(n)

SpecPage == Init /\ [][NextPage]_vars

\* C28: while HomePage stays the current page, whenever search, limit, sort,
\* category1 or category2 of the router query differs from its value at the
\* previous HomePage render, loadProducts(true) is invoked during the render;
\* a change of the page counter alone triggers no reload
C28_QueryChangeReloadsList ==
    (view.pc = "open" /\ view.last.rendered /\ view.last.stayed) =>
        /\ view.last.before # view.last.at =>
              "loadProducts(true)" \in Range(view.last.calls)
        /\ view.last.before = view.last.at =>
              "loadProducts(true)" \notin Range(view.last.calls)

-----------------------------------------------------------------------------
(* The loaders after hydration *)

\* the step leaves the store, the router query and the requests in flight as
\* they are
NothingIssued ==
    /\ client'.store = client.store
    /\ client'.query = client.query
    /\ client'.tasks = client.tasks

ProductsRequestFails(i) ==
    /\ i \in DOMAIN client.tasks
    /\ client.tasks[i].op = "loadProducts"
    /\ Rejected(i)

\* task i waits in loadRelatedProducts and this step is the failure of its
\* request
RelatedRequestFails(i) ==
    /\ i \in DOMAIN client.tasks
    /\ client.tasks[i].op = "loadRelatedProducts"
    /\ Rejected(i)

-----------------------------------------------------------------------------
(* Loads in flight in the browser *)

\* the load-more requests in flight: the loadProducts(false) calls that wait
\* for their response
LoadMoreInFlight(c) ==
    {i \in DOMAIN c.tasks : c.tasks[i].op = "loadProducts" /\ ~c.tasks[i].resetList}

\* loadMoreProducts' guard lets the call through
MayLoadMore(state) == Len(state.products) < state.totalCount /\ ~state.loading

\* loads are never blocked, and a blocked call changes nothing; a call that
\* is let through moves the page counter by one, and its response is appended
LoadMoreSteps ==
    /\ CallLoadMoreProducts =>
          IF MayLoadMore(client.store.val)
          THEN /\ client'.query = Spread(client.query,
                                    [current |-> CurrentPage(client.query) + 1])
               /\ client'.tasks = Append(client.tasks, Task("loadProducts", FALSE, <<>>))
          ELSE /\ client'.query = client.query
               /\ client'.store = client.store
               /\ client'.tasks = client.tasks
    /\ \A i \in 1..MaxCalls, body \in ProductsBodies :
          (/\ ProductsFulfilled(i, body)
           /\ i \in LoadMoreInFlight(client)) =>
              /\ client'.store.val.products = client.store.val.products \o body.products

\* C31: loadMoreProducts does nothing when products.length is not less than
\* totalCount or when loading is true; otherwise it advances the router
\* query's current page by exactly one and appends the fetched page with
\* ADD_PRODUCTS; at most one load-more request is in flight at any time
C31_LoadMoreOneAtATime ==
    [][/\ LoadMoreSteps
       /\ Cardinality(LoadMoreInFlight(client')) <= 1]_vars

-----------------------------------------------------------------------------
(* The active store during concurrent render calls *)

\* the step in which call r runs its page render step
PageRenderStep(r) ==
    /\ req[r].pc = "await"
    /\ req'[r].pc = "settled"
    /\ "page" \in Range(req'[r].stages)

\* C32: getActiveStore() returns the client singleton productStore only when
\* no SSR render is in flight: during the page render step of any render(url)
\* call, in every interleaving of concurrent calls, the active-store slot is
\* non-null and the singleton is never the store that is read
C32_SingletonNeverReadDuringRender ==
    [][\A r \in Requests :
          PageRenderStep(r) =>
              /\ ssrStore # 0
              /\ req'[r].rendered => req'[r].readFrom # SingletonId]_vars

-----------------------------------------------------------------------------
(* The Express handler in development mode, several requests in flight:   *)
(* src/packages/vanilla/server.js:48-53, 87-105. template and render are   *)
(* variables of createServer, shared by all runs of the handler.           *)

\* fs.readFileSync("./index.html", "utf-8")
RawTemplate == [kind |-> "raw"]

\* what vite.transformIndexHtml(url, template) resolves to
TransformedTemplate(url, template) == [kind |-> "transformed", url |-> url, of |-> template]

\* the render export of the module that the ssrLoadModule call of request r
\* resolves to
LoadedRender(r) == r

DevUrls == {<<"/">>, <<"/", "product", "/", "p1", "/">>}

OtherVarsDev ==
    <<routes, regLog, lastUrl, matchResult, stores, subs, notified, lastAction, nextRef,
      ssrStore, req, client, prefetched, composed, ssg, http, queried, view, feed, nav, related>>

\* the handler is entered for request r and runs up to its first await:
\* template = readFileSync(...), then transformIndexHtml(url, template) is called
DevRequest(r, originalUrl) ==
    /\ dev.handlers[r].pc = "idle"
    /\ \E url \in {normalizeUrl(DevBase, originalUrl)} :
          dev' = [dev EXCEPT !.template = RawTemplate,
                             !.handlers[r] = [pc |-> "transform", url |-> url,
                                              transforming |-> RawTemplate]]
    /\ UNCHANGED OtherVarsDev

\* transformIndexHtml has resolved: template = <its value>, then
\* vite.ssrLoadModule("/src/main-server.js") is called
DevTransformed(r) ==
    /\ dev.handlers[r].pc = "transform"
    /\ LET own == TransformedTemplate(dev.handlers[r].url, dev.handlers[r].transforming)
       IN dev' = [dev EXCEPT !.template = own,
                             !.handlers[r] = Spread(@, [pc |-> "load", ownTemplate |-> own])]
    /\ UNCHANGED OtherVarsDev

\* ssrLoadModule has resolved: render = <module>.render, then render(url) is
\* called
DevLoaded(r) ==
    /\ dev.handlers[r].pc = "load"
    /\ dev' = [dev EXCEPT !.render = LoadedRender(r),
                          !.handlers[r] = Spread(@, [pc |-> "render",
                                                     called |-> LoadedRender(r)])]
    /\ UNCHANGED OtherVarsDev

\* render(url) has resolved: injectSSRResult(template, rendered) and the
\* response
DevRendered(r) ==
    /\ dev.handlers[r].pc = "render"
    /\ dev' = [dev EXCEPT !.handlers[r] = Spread(@, [pc |-> "done", passed |-> dev.template])]
    /\ UNCHANGED OtherVarsDev

NextDev ==
    \/ \E r \in Requests, originalUrl \in DevUrls : DevRequest(r, originalUrl)
    \/ \E r \in Requests : DevTransformed(r)
    \/ \E r \in Requests : DevLoaded(r)
    \/ \E r \in Requests : DevRendered(r)

SpecDev == Init /\ [][NextDev]_vars

\* C33: in development mode, when several requests interleave at the
\* handler's awaits, the template each request passes to injectSSRResult is
\* the one read and transformed for that request's own URL, and the render
\* function it calls is the one it loaded itself
C33_OwnTemplateAndRender ==
    \A r \in Requests :
        /\ dev.handlers[r].pc \in {"render", "done"} =>
              dev.handlers[r].called = LoadedRender(r)
        /\ dev.handlers[r].pc = "done" =>
              /\ dev.handlers[r].passed = dev.handlers[r].ownTemplate
              /\ dev.handlers[r].passed =
                     TransformedTemplate(dev.handlers[r].url, RawTemplate)

-----------------------------------------------------------------------------
(* The product list in the browser: the loaders of src/unnamed/part_002     *)
(* with the requests they send (getProducts, src/unnamed/part_004:722),     *)
(* answered as mockGetProducts answers them                                 *)

\* getProducts(query): the request parameters built from router.query, and
\* the answer to them
getProducts(query) ==
    mockGetProductsIn(Items,
        Spread([page |-> CurrentPage(query),
                limit |-> IF query.limit = 0 THEN 20 ELSE query.limit,
                sort |-> <<"price_asc">>],
               IF query.search # <<>> THEN [search |-> query.search] ELSE EmptyObj))

\* the part of a query that selects and orders the list
FilterOf(query) == [search |-> query.search, limit |-> query.limit]

FeedUrls ==
    {<<"/">>,
     <<"/", "?", "search", "=", "b">>,
     <<"/", "?", "limit", "=", "1">>,
     <<"/", "?", "limit", "=", "1", "&", "current", "=", "2">>,
     <<"/", "?", "limit", "=", "2">>,
     <<"/", "?", "search", "=", "z">>}

FeedSearches == {<<>>, <<"b">>}

OtherVarsFeed ==
    <<routes, regLog, lastUrl, matchResult, stores, subs, notified, lastAction, nextRef,
      ssrStore, req, client, prefetched, composed, ssg, http, queried, view, dev, nav, related>>

\* a product load that waits for its response: the loader, resetList and the
\* router.query its request was built from
FeedTask(op, resetList, query) == [op |-> op, resetList |-> resetList, query |-> query]

\* loadProductsAndCategories() up to its await, on the list state
FeedLoadProductsAndCategories(f) ==
    IF Len(f.products) > 0
    THEN f
    ELSE LET query == SetQuery(f.query, [current |-> 0])
         IN Spread(f, [query |-> query, products |-> <<>>, totalCount |-> 0,
                       loading |-> TRUE, origin |-> <<>>,
                       tasks |-> Append(f.tasks,
                                   FeedTask("loadProductsAndCategories", TRUE, query))])

\* loadProducts(resetList) up to its await, on the list state
FeedLoadProducts(f, resetList) ==
    Spread(f, [loading |-> TRUE,
               raced |-> f.raced \/ \E i \in DOMAIN f.tasks : f.tasks[i].op = "loadProducts",
               calls |-> f.calls + 1,
               tasks |-> Append(f.tasks, FeedTask("loadProducts", resetList, f.query))])

\* the document of a listing URL is loaded, with or without server data,
\* main() runs, and the first render mounts HomePage
FeedOpen(url, hydrated) ==
    /\ feed.pc = "closed"
    /\ \E query \in {parseQuery(extractQueryString(url))} :
       \E data \in {prefetchDataIn(Items, <<"/">>, EmptyObj, query, 4)} :
          feed' = FeedLoadProductsAndCategories(
                    [pc |-> "open", query |-> LocationQuery(query),
                     products |-> IF hydrated THEN data.products ELSE <<>>,
                     totalCount |-> IF hydrated THEN data.totalCount ELSE 0,
                     loading |-> ~hydrated,
                     origin |-> IF hydrated
                                THEN <<FilterOf(LocationQuery(query))>> ELSE <<>>,
                     tasks |-> <<>>, calls |-> 0, raced |-> FALSE, onlyMore |-> TRUE,
                     watching |-> ~hydrated \/ data.products = <<>>])
    /\ UNCHANGED OtherVarsFeed

\* searchProducts(search), and the render it causes: HomePage's watch calls
\* loadProducts(true) when it has values to compare with and they differ
FeedSearch(search) ==
    /\ feed.pc = "open"
    /\ feed.calls < MaxCalls
    /\ LET changed == Spread(feed, [query |-> SetQuery(feed.query,
                                                [search |-> search, current |-> 1]),
                                    onlyMore |-> FALSE, watching |-> TRUE])
       IN feed' = IF feed.watching /\ search # feed.query.search
                  THEN FeedLoadProducts(changed, TRUE)
                  ELSE Spread(changed, [calls |-> feed.calls + 1])
    /\ UNCHANGED OtherVarsFeed

\* loadMoreProducts(), called by the scroll handler
FeedLoadMore ==
    /\ feed.pc = "open"
    /\ feed.calls < MaxCalls
    /\ Len(feed.products) < feed.totalCount
    /\ ~feed.loading
    /\ feed' = FeedLoadProducts(
                 Spread(feed, [query |-> SetQuery(feed.query,
                                           [current |-> CurrentPage(feed.query) + 1]),
                               watching |-> TRUE]),
                 FALSE)
    /\ UNCHANGED OtherVarsFeed

\* the response to the request of load i arrives and its loader runs to the
\* end: SETUP or SET_PRODUCTS replaces the list, ADD_PRODUCTS appends to it
FeedRespond(i) ==
    /\ feed.pc = "open"
    /\ i \in DOMAIN feed.tasks
    /\ \E body \in {getProducts(feed.tasks[i].query)} :
          feed' = Spread(feed,
                    [products |-> IF feed.tasks[i].resetList THEN body.products
                                  ELSE feed.products \o body.products,
                     totalCount |-> body.pagination.total,
                     loading |-> FALSE,
                     watching |-> TRUE,
                     origin |-> IF feed.tasks[i].resetList
                                THEN <<FilterOf(feed.tasks[i].query)>>
                                ELSE Append(feed.origin, FilterOf(feed.tasks[i].query)),
                     tasks |-> Without(feed.tasks, i)])
    /\ UNCHANGED OtherVarsFeed

NextFeed ==
    \/ \E url \in FeedUrls, hydrated \in BOOLEAN : FeedOpen(url, hydrated)
    \/ \E search \in FeedSearches : FeedSearch(search)
    \/ FeedLoadMore
    \/ \E i \in 1..(MaxCalls + 1) : FeedRespond(i)

SpecFeed == Init /\ [][NextFeed]_vars

\* C34: when several client product loads are in flight at once and their
\* responses arrive in any order, then once all have completed the store's
\* product list is the result for the router's latest query only: no products
\* fetched for an earlier query are present
C34_ListIsOfLatestQuery ==
    (feed.pc = "open" /\ feed.raced /\ feed.tasks = <<>>) =>
        \A k \in DOMAIN feed.origin : feed.origin[k] = FilterOf(feed.query)


\* the whole filtered and sorted list of a query
FullList(query) ==
    getProducts(Spread(query, [current |-> 1, limit |-> Len(Items) + 1])).products

\* seq starts whole
IsPrefix(seq, whole) ==
    Len(seq) <= Len(whole) /\ SubSeq(whole, 1, Len(seq)) = seq

\* C35: after an initial first-page load (by loadProductsAndCategories,
\* loadProducts(true) or hydration from an SSR home render) followed by any
\* sequence of completed loadMoreProducts calls with an unchanged filter, the
\* store's product list is a duplicate-free prefix of the full filtered and
\* sorted result list, and products.length never exceeds totalCount
C35_ListIsPrefixOfFullResult ==
    (feed.pc = "open" /\ feed.onlyMore /\ feed.tasks = <<>>) =>
        /\ IsPrefix(feed.products, FullList(feed.query))
        /\ \A j, k \in DOMAIN feed.products :
              feed.products[j].productId = feed.products[k].productId => j = k
        /\ Len(feed.products) <= feed.totalCount

-----------------------------------------------------------------------------
(* The lifecycles of the registered pages: src/unnamed/part_004:317 (w, T,  *)
(* E, O, k, A), the pages of part_004:756 and :935 and the routes of        *)
(* part_004:943                                                            *)

\* the pages registered through withLifecycle: '/' and '/product/:id/'
LifecyclePages == {"HomePage", "ProductDetailPage"}

\* the handler of the route '.*' is a plain function
NotFoundHandler == "NotFoundHandler"

WatchedIds == {"p1", "p2", "p3"}

\* what the first function of the page's watch returns at a render
WatchedOf(page) ==
    IF page = "HomePage"
    THEN {Watched([search |-> search, limit |-> 0, sort |-> <<>>,
                   category1 |-> <<>>, category2 |-> <<>>]) : search \in SearchValues}
    ELSE {<<id>> : id \in WatchedIds}

LifecycleCall(call, page) == [call |-> call, page |-> page]

\* O: mount(page)
lifecycleMount(n, page) ==
    IF n.lifecycle[page].mounted THEN n
    ELSE Spread(n, [lifecycle |-> [n.lifecycle EXCEPT
                                     ![page] = [mounted |-> TRUE, deps |-> <<>>]],
                    events |-> Append(n.events, LifecycleCall("onMount", page))])

\* k: unmount(page); the call recorded is lifecycle.unmount?.()
lifecycleUnmount(n, page) ==
    IF n.lifecycle[page].mounted
    THEN Spread(n, [lifecycle |-> [n.lifecycle EXCEPT ![page].mounted = FALSE],
                    events |-> Append(n.events, LifecycleCall("onUnmount", page))])
    ELSE n

\* the function withLifecycle returns for the page, up to the call of the
\* page function
lifecycleRender(n, page, newDeps) ==
    LET wasNewPage == n.current # page
        left == IF n.current # Null /\ wasNewPage
                THEN lifecycleUnmount(n, n.current) ELSE n
        entered == Spread(left, [previous |-> n.current, current |-> page])
    IN IF wasNewPage
       THEN lifecycleMount(entered, page)
       ELSE Spread(entered,
              [lifecycle |-> [entered.lifecycle EXCEPT ![page].deps = <<newDeps>>],
               events |-> IF depsChanged(newDeps, entered.lifecycle[page].deps)
                          THEN Append(entered.events, LifecycleCall("watch", page))
                          ELSE entered.events])

OtherVarsNav ==
    <<routes, regLog, lastUrl, matchResult, stores, subs, notified, lastAction, nextRef,
      ssrStore, req, client, prefetched, composed, ssg, http, queried, view, dev, feed, related>>

\* main(): the routes are registered and the router starts
NavOpen ==
    /\ nav.pc = "closed"
    /\ nav' = [pc |-> "open", current |-> Null, previous |-> Null,
               lifecycle |-> [page \in LifecyclePages |->
                                [mounted |-> FALSE, deps |-> <<>>]],
               shown |-> "none", before |-> "none", events |-> <<>>]
    /\ UNCHANGED OtherVarsNav

\* the render callback runs while the router's target is a page registered
\* through withLifecycle
RenderLifecyclePage(page, newDeps) ==
    /\ nav.pc = "open"
    /\ nav' = Spread(lifecycleRender(Spread(nav, [events |-> <<>>]), page, newDeps),
                     [shown |-> page, before |-> nav.shown])
    /\ UNCHANGED OtherVarsNav

\* the render callback runs while the router's target is the handler of '.*'
RenderNotFoundHandler ==
    /\ nav.pc = "open"
    /\ nav' = Spread(nav, [events |-> <<>>, shown |-> NotFoundHandler,
                           before |-> nav.shown])
    /\ UNCHANGED OtherVarsNav

NextNav ==
    \/ NavOpen
    \/ \E page \in LifecyclePages : \E newDeps \in WatchedOf(page) :
          RenderLifecyclePage(page, newDeps)
    \/ RenderNotFoundHandler

SpecNav == Init /\ [][NextNav]_vars

CallsOf(events, call, page) ==
    {i \in DOMAIN events : events[i] = LifecycleCall(call, page)}

\* C36: a page wrapped by withLifecycle has its onMount called exactly once
\* at the render at which it becomes the displayed page after a different
\* page, the onUnmount of the page displayed before is called before that
\* onMount, and a render of the page while it stays displayed calls neither
C36_MountOncePerDisplay ==
    (nav.pc = "open" /\ nav.shown \in LifecyclePages) =>
        IF nav.before # nav.shown
        THEN /\ Cardinality(CallsOf(nav.events, "onMount", nav.shown)) = 1
             /\ nav.before \in LifecyclePages =>
                  \E i \in CallsOf(nav.events, "onUnmount", nav.before) :
                     \A j \in CallsOf(nav.events, "onMount", nav.shown) : i < j
        ELSE \A i \in DOMAIN nav.events :
                nav.events[i].call \notin {"onMount", "onUnmount"}

-----------------------------------------------------------------------------
(* The related products of a product, as the SSR prefetch computes them     *)
(* (src/unnamed/part_004:207-216) and as the client loads them              *)
(* (loadProductDetailForPage and loadRelatedProducts, src/unnamed/part_002) *)

\* the request of loadRelatedProducts(category2, excludeProductId):
\* getProducts({category2, limit: 20, page: 1}), and the answer to it
relatedRequest(items, category2) ==
    mockGetProductsIn(items, [category2 |-> category2, limit |-> 20, page |-> 1])

\* response.products.filter((product) => product.productId !== excludeProductId)
exceptProduct(products, excludeProductId) ==
    SelectSeqBy(products, {q \in Range(products) : q.productId # excludeProductId})

\* the products looked up: every product of the catalog
RelatedIds(items) == {items[i].productId : i \in DOMAIN items}

OtherVarsRelated ==
    <<routes, regLog, lastUrl, matchResult, stores, subs, notified, lastAction, nextRef,
      ssrStore, req, client, prefetched, composed, ssg, http, queried, view, dev, feed,
      nav>>

\* a product of the catalog is picked; the server has not prefetched it and
\* the client's store is in its initial state
RelatedPick(items, id) ==
    /\ related.pc = "closed"
    /\ related' = [pc |-> "open", items |-> items, id |-> id,
                   server |-> [pc |-> "idle"],
                   client |-> [pc |-> "idle", currentProduct |-> NullObj,
                               relatedProducts |-> initialProductState.val.relatedProducts]]
    /\ UNCHANGED OtherVarsRelated

\* the server renders /product/<id>/: prefetchData('/product/:id/', {id}, {})
RelatedPrefetch(rating) ==
    /\ related.pc = "open"
    /\ related.server.pc = "idle"
    /\ \E result \in {prefetchDataIn(related.items, DetailPath, <<"id">> :> related.id,
                                     EmptyObj, rating)} :
          related' = Spread(related,
                       [server |-> [pc |-> "done",
                                    relatedProducts |-> result.relatedProducts]])
    /\ UNCHANGED OtherVarsRelated

\* the client calls loadProductDetailForPage(id) with no current product:
\* it runs up to await getProduct(productId)
RelatedLoadDetail ==
    /\ related.pc = "open"
    /\ related.client.pc = "idle"
    /\ related' = Spread(related, [client |-> Spread(related.client, [pc |-> "getProduct"])])
    /\ UNCHANGED OtherVarsRelated

\* getProduct fulfils: SET_CURRENT_PRODUCT, then loadRelatedProducts up to
\* await getProducts(params) when the product has a category2
RelatedProductArrives(rating) ==
    /\ related.pc = "open"
    /\ related.client.pc = "getProduct"
    /\ LET product == mockGetProductIn(related.items, related.id, rating)
       IN related' = Spread(related,
            [client |-> Spread(related.client,
               [pc |-> IF product.category2 # <<>> THEN "getProducts" ELSE "done",
                currentProduct |-> product])])
    /\ UNCHANGED OtherVarsRelated

\* getProducts fulfils: SET_RELATED_PRODUCTS with the products of the answer
\* except the product itself
RelatedProductsArrive ==
    /\ related.pc = "open"
    /\ related.client.pc = "getProducts"
    /\ \E response \in {relatedRequest(related.items,
                                       related.client.currentProduct.category2)} :
          related' = Spread(related,
            [client |-> Spread(related.client,
               [pc |-> "done",
                relatedProducts |-> exceptProduct(response.products, related.id)])])
    /\ UNCHANGED OtherVarsRelated

NextRelated ==
    \/ \E items \in Catalogs : \E id \in RelatedIds(items) : RelatedPick(items, id)
    \/ \E rating \in Ratings : RelatedPrefetch(rating)
    \/ RelatedLoadDetail
    \/ \E rating \in Ratings : RelatedProductArrives(rating)
    \/ RelatedProductsArrive

SpecRelated == Init /\ [][NextRelated]_vars

\* C37: for every product, the relatedProducts the SSR prefetch computes and
\* the relatedProducts the client stores after loadRelatedProducts are the
\* same list
C37_SameRelatedOnServerAndClient ==
    (related.pc = "open" /\ related.server.pc = "done" /\ related.client.pc = "done") =>
        related.server.relatedProducts = related.client.relatedProducts

====
